---------------------------- MODULE Spec2Model ----------------------------
(***************************************************************************)
(* Model of the GitLab metrics collectors:                                 *)
(*   devflow : src/gitlab_devflow_metrics.py         (sequential, MRs)     *)
(*   ci      : src/gitlab_ci_health_metrics.py       (sequential, CI)      *)
(*   old     : src/___old/gitlab_ci_health_metrics.py (thread pools, CI)   *)
(*                                                                         *)
(* Several specifications share the module:                                *)
(*   SpecGet      one logical GET of GitLab._get (retry loop)              *)
(*   SpecPaginate one walk of GitLab._paginate over the pages of a list    *)
(*   SpecRun      main(): discovery, per-project collection, summary       *)
(*   SpecCollect  collect_for_project of one project, finer entity data    *)
(*   SpecHeuristics, SpecStats  single calls of the pure functions         *)
(*   SpecConc     the nested thread pools of the old script                *)
(*                                                                         *)
(* Conventions.  An optional value (Python None or a value) is a sequence  *)
(* of length at most one: <<>> is None, <<v>> is v.  Times are integer     *)
(* ticks (one tick is one hour for devflow, one second for ci/old).        *)
(* Metric values are integers counting ten-thousandths, so that rounding   *)
(* to 3 decimals is visible: a value the code has rounded is a multiple of *)
(* 10.  Sleeps are counted in tenths of a second.                          *)
(***************************************************************************)
EXTENDS Integers, Sequences, FiniteSets, Bags, TLC

VARIABLES
    variant,      \* which of the three programs runs
    \* ---- the interpreter
    py_sum,       \* how sum() adds floats: "left_to_right" | "compensated";
                  \* "idle" where no sum decides a rounding
    \* ---- GitLab._get
    attempt,      \* loop variable of `for attempt in range(5)`
    r,            \* the last response received (its status), None before
    get_pc,       \* "loop" | "returned" | "raised"
    get_exc,      \* the exception type raised by _get, "none" otherwise
    trace,        \* what the call did so far: requests and sleeps, in order
    \* ---- GitLab._paginate
    page,         \* the local `page`
    pg_pc,        \* "fetch" | "done" | "raised"
    yielded,      \* every record yielded so far, in order
    visited,      \* every response received so far, with the page asked
    \* ---- main and collect_for_project
    main_pc,      \* where main() is
    projects,     \* the discovered projects, in discovery order
    begun,        \* devflow, ci: indexes of the projects taken up by main, in order
    todo,         \* entities of the current project still to process
    acc,          \* the accumulators of the running collect_for_project
    last,         \* what the last processed entity came to
    nfact,        \* entities of the current project that produced a fact
    result,       \* (facts, rollup, stage_rows) as last returned to main
    rollups,      \* main's portfolio list (rollups / all_rollups)
    written,      \* paths of the projects whose fact CSV was written
    summary,      \* the rows written to _summary.csv
    abort,        \* the uncaught exception that ended main, if any
    list_failed,  \* paths of the projects whose entity listing raised
    pool,         \* old: per discovered project, its collector and inner pool
    \* ---- one call of a pure function
    fn_pc,        \* "call" before the function is applied, "done" after
    fn_in,        \* the function called and its arguments
    fn_out,       \* what the call returned, None before
    \* ---- the thread pools of the old script
    conc_pc,      \* where the concurrent main() is
    argv,         \* --workers and --per-project-workers as given, None if absent
    ex,           \* main's ThreadPoolExecutor: its max_workers once created
    col,          \* per discovered project: its future and its inner pool
    gl,           \* per GitLab instance (named by its creator): who used it
    appends       \* the appends to the result lists made so far

getVars  == <<attempt, r, get_pc, get_exc, trace>>
pageVars == <<page, pg_pc, yielded, visited>>
runVars  == <<main_pc, projects, begun, todo, acc, last, nfact, result,
              rollups, written, summary, abort, list_failed, pool>>
fnVars   == <<fn_pc, fn_in, fn_out>>
concVars == <<conc_pc, argv, ex, col, gl, appends>>
vars     == <<variant, py_sum, getVars, pageVars, runVars, fnVars, concVars>>

Variants == {"devflow", "ci", "old"}

\* The variables of main() while a specification of _get or _paginate runs.
InitRunIdle ==
    /\ main_pc = "idle"
    /\ projects = <<>>
    /\ begun = <<>>
    /\ todo = 0
    /\ acc = <<>>
    /\ last = <<>>
    /\ nfact = 0
    /\ result = <<>>
    /\ rollups = <<>>
    /\ written = {}
    /\ summary = <<>>
    /\ abort = "none"
    /\ list_failed = {}
    /\ pool = <<>>

\* The variables of a pure-function call while another specification runs.
InitFnIdle ==
    /\ fn_pc = "idle"
    /\ fn_in = <<>>
    /\ fn_out = <<>>

\* The interpreter's sum() while a specification runs in which no sum()
\* decides a rounding: none is called, or no mean is a decimal tie (FloatSum
\* has no value then, so that a tie met would stop TLC with an error).
InitSumIdle == py_sum = "idle"

\* The variables of the thread pools while another specification runs.
InitConcIdle ==
    /\ conc_pc = "idle"
    /\ argv = <<>>
    /\ ex = <<>>
    /\ col = <<>>
    /\ gl = <<>>
    /\ appends = {}

None == <<>>
Some(v) == <<v>>

(***************************************************************************)
(* GitLab._get                                                             *)
(***************************************************************************)

\* range(5): the number of attempts of one logical GET.
MaxAttempts == 5

\* The statuses the modelled server answers with.
Statuses == {200, 204, 304, 400, 404, 429, 500, 501, 502, 503, 504, 599}

\* What self.s.get(...) produces: a response with a status, or the
\* per-request timeout expiring (requests raises Timeout out of s.get).
Responses ==
    [timeout : {FALSE}, status : Statuses] \cup {[timeout |-> TRUE, status |-> 0]}

\* A classification that retries 429 and every 5xx status.
IsRetryStatus_Any5xx(status) == status = 429 \/ (500 <= status /\ status <= 599)

\* `r.status_code in (429, 502, 503, 504)`
IsRetryStatus(status) == status \in {429, 502, 503, 504}

\* requests.Response.raise_for_status raises HTTPError for 4xx and 5xx only.
RaisesForStatus(status) == 400 <= status /\ status < 600

\* requests.Response.__bool__ is Response.ok: no HTTPError from raise_for_status.
ResponseTruthy(resp) == resp # None /\ ~RaisesForStatus(resp[1])

\* `time.sleep(1.5 * (attempt + 1))`, in tenths of a second.
SleepTenths(att) == 15 * (att + 1)

RequestEv(resp) == [ev |-> "request", status |-> resp.status, timeout |-> resp.timeout, tenths |-> 0]
SleepEv(t)      == [ev |-> "sleep", status |-> 0, timeout |-> FALSE, tenths |-> t]

InitGet ==
    /\ attempt = 0
    /\ r = None
    /\ get_pc = "loop"
    /\ get_exc = "none"
    /\ trace = <<>>

\* One iteration of the retry loop: the request, then sleep-and-continue,
\* raise, or return.
GetAttempt ==
    /\ get_pc = "loop"
    /\ attempt < MaxAttempts
    /\ \E resp \in Responses :
        IF resp.timeout
        THEN \* s.get raises; nothing in _get catches it
             /\ trace' = Append(trace, RequestEv(resp))
             /\ get_pc' = "raised"
             /\ get_exc' = "Timeout"
             /\ UNCHANGED <<attempt, r>>
        ELSE IF IsRetryStatus(resp.status)
        THEN /\ trace' = trace \o <<RequestEv(resp), SleepEv(SleepTenths(attempt))>>
             /\ attempt' = attempt + 1
             /\ r' = Some(resp.status)
             /\ UNCHANGED <<get_pc, get_exc>>
        ELSE IF RaisesForStatus(resp.status)
        THEN /\ trace' = Append(trace, RequestEv(resp))
             /\ r' = Some(resp.status)
             /\ get_pc' = "raised"
             /\ get_exc' = "HTTPError"
             /\ UNCHANGED attempt
        ELSE /\ trace' = Append(trace, RequestEv(resp))
             /\ r' = Some(resp.status)
             /\ get_pc' = "returned"
             /\ UNCHANGED <<attempt, get_exc>>
    /\ UNCHANGED <<variant, py_sum, concVars, fnVars, pageVars, runVars>>

\* The code after the loop, reached when all attempts were retryable.
\* ci/old: r.raise_for_status().  devflow: `if r: r.raise_for_status()` and
\* then `raise RequestException(...)`; a 429/5xx response is falsy.
GetAfterLoop ==
    /\ get_pc = "loop"
    /\ attempt = MaxAttempts
    /\ get_pc' = "raised"
    /\ get_exc' = IF variant = "devflow"
                  THEN IF ResponseTruthy(r) /\ RaisesForStatus(r[1])
                       THEN "HTTPError" ELSE "RequestException"
                  ELSE IF RaisesForStatus(r[1]) THEN "HTTPError" ELSE "none"
    /\ UNCHANGED <<variant, py_sum, concVars, fnVars, attempt, r, trace, pageVars, runVars>>

InitPageIdle ==
    /\ page = 1
    /\ pg_pc = "idle"
    /\ yielded = <<>>
    /\ visited = <<>>

InitSpecGet == variant \in Variants /\ InitSumIdle /\ InitGet /\ InitPageIdle /\ InitRunIdle /\ InitFnIdle /\ InitConcIdle
NextGet == GetAttempt \/ GetAfterLoop
SpecGet == InitSpecGet /\ [][NextGet]_vars

(***************************************************************************)
(* Properties of GitLab._get                                               *)
(***************************************************************************)

RequestIdx == {i \in 1..Len(trace) : trace[i].ev = "request"}
SleepIdx   == {i \in 1..Len(trace) : trace[i].ev = "sleep"}
NumRequests == Cardinality(RequestIdx)
\* The number of requests among the first i events.
RequestsUpTo(i) == Cardinality({j \in RequestIdx : j <= i})
\* The number of sleeps among the first i events.
SleepsUpTo(i) == Cardinality({j \in SleepIdx : j <= i})
CallEnded == get_pc \in {"returned", "raised"}

\* C4 (as amended): exactly the statuses 429, 502, 503 and 504 are
\* transient: such a response is followed by a wait and, while fewer than
\* five requests were made, by another request or a call still in its loop;
\* every other 4xx/5xx status (500, 501 and 599 included) is the last event
\* of the call, which has failed with HTTPError: no wait, no further request.
C4_RetryClassification ==
    \A i \in RequestIdx :
        LET s == trace[i].status IN
        ~trace[i].timeout =>
            /\ s \in {429, 502, 503, 504} =>
                /\ i < Len(trace)
                /\ trace[i + 1].ev = "sleep"
                /\ RequestsUpTo(i) < 5 =>
                      IF i + 1 < Len(trace)
                      THEN trace[i + 2].ev = "request"
                      ELSE get_pc = "loop"
            /\ (s \notin {429, 502, 503, 504} /\ s >= 400 /\ s <= 599) =>
                /\ i = Len(trace)
                /\ get_pc = "raised"
                /\ get_exc = "HTTPError"

\* C4 witness: a 503 was retried and a later 500 ended the call at once.
C4_Witness ==
    /\ Len(trace) >= 3
    /\ trace[1].status = 503
    /\ trace[2].ev = "sleep"
    /\ trace[Len(trace)].ev = "request"
    /\ trace[Len(trace)].status = 500
    /\ get_pc = "raised"

\* C4 (original): every response with status 429 or 5xx (500..599) is
\* treated as transient, i.e. followed by a wait.
C4_Any5xxIsTransient ==
    \A i \in RequestIdx :
        LET s == trace[i].status IN
        (~trace[i].timeout /\ (s = 429 \/ (s >= 500 /\ s <= 599))) =>
            /\ i < Len(trace)
            /\ trace[i + 1].ev = "sleep"

\* C5: at most 5 requests per logical GET; the k-th wait lasts 1.5 x k
\* seconds; once the call has ended every wait was followed by another
\* request; a response that is returned is the last event of the call.
C5_EveryWaitIsFollowedByARetry ==
    /\ NumRequests <= 5
    /\ \A i \in SleepIdx : trace[i].tenths = 15 * SleepsUpTo(i)
    /\ CallEnded => \A i \in SleepIdx :
                        i < Len(trace) /\ trace[i + 1].ev = "request"
    /\ get_pc = "returned" => trace[Len(trace)].ev = "request"

\* C6: a timed-out request is retried like a 429/5xx: a Timeout leaves
\* _get only when all five attempts have been used.
C6_TimeoutIsRetried ==
    (get_pc = "raised" /\ get_exc = "Timeout") => NumRequests = MaxAttempts

(***************************************************************************)
(* GitLab._paginate                                                        *)
(***************************************************************************)

\* The number of pages one walk may request before the model stops it.
MaxVisits == 3

\* r.json(): a list of records, or a single object (not a list).
Bodies ==
    {[islist |-> TRUE, content |-> c] : c \in {<<>>, <<1>>, <<2>>, <<1, 2>>}}
        \cup {[islist |-> FALSE, content |-> <<7>>]}

\* r.headers.get("X-Next-Page"): None when the header is absent, otherwise
\* its text, a string of decimal digits (possibly empty).
NextHeaders ==
    {[present |-> FALSE, digits |-> <<>>]}
        \cup {[present |-> TRUE, digits |-> d] :
                 d \in {<<>>, <<1>>, <<2>>, <<3>>, <<1, 2>>}}

\* int(s) for a string of decimal digits.
RECURSIVE IntOf(_)
IntOf(digits) ==
    IF digits = <<>> THEN 0
    ELSE 10 * IntOf(SubSeq(digits, 1, Len(digits) - 1)) + digits[Len(digits)]

\* `not next_page`: None and the empty string are falsy.
HeaderFalsy(h) == ~h.present \/ h.digits = <<>>

\* A walk that goes on to the page after the current one.
NextPage_Increment(pg, h) == pg + 1

\* `page = int(next_page)`
NextPage(pg, h) == IntOf(h.digits)

\* A generator that loses the items of the last page of a list.
YieldOf_DropLastPage(body, h) ==
    IF ~body.islist THEN body.content
    ELSE IF HeaderFalsy(h) THEN <<>> ELSE body.content

\* What one response adds to the generator's output: `yield items` for a
\* body that is not a list, `for it in items: yield it` otherwise.
YieldOf(body, h) == body.content

InitPaginate ==
    /\ page = 1
    /\ pg_pc = "fetch"
    /\ yielded = <<>>
    /\ visited = <<>>

\* One turn of `while True` in which self._get returns a response whose
\* next-page header is one of hs.
FetchFrom(hs) ==
    /\ pg_pc = "fetch"
    /\ \E body \in Bodies, h \in hs :
        /\ visited' = Append(visited, [page |-> page, body |-> body, header |-> h])
        /\ yielded' = yielded \o YieldOf(body, h)
        /\ IF ~body.islist
           THEN pg_pc' = "done" /\ UNCHANGED page
           ELSE IF HeaderFalsy(h)
           THEN pg_pc' = "done" /\ UNCHANGED page
           ELSE pg_pc' = "fetch" /\ page' = NextPage(page, h)
    /\ UNCHANGED <<variant, py_sum, concVars, fnVars, getVars, runVars>>

\* One turn of `while True` against a server that may answer anything.
PaginateFetch ==
    /\ Len(visited) < MaxVisits
    /\ FetchFrom(NextHeaders)

\* One turn of `while True` in which self._get raises: the generator ends
\* with that exception, after whatever it yielded before.
PaginateGetRaises ==
    /\ pg_pc = "fetch"
    /\ Len(visited) < MaxVisits
    /\ pg_pc' = "raised"
    /\ UNCHANGED <<variant, py_sum, concVars, fnVars, getVars, page, yielded, visited, runVars>>

InitGetIdle ==
    /\ attempt = 0
    /\ r = None
    /\ get_pc = "idle"
    /\ get_exc = "none"
    /\ trace = <<>>

InitSpecPaginate == variant \in Variants /\ InitSumIdle /\ InitGetIdle /\ InitPaginate /\ InitRunIdle /\ InitFnIdle /\ InitConcIdle
NextPaginate == PaginateFetch \/ PaginateGetRaises
SpecPaginate == InitSpecPaginate /\ [][NextPaginate]_vars

\* The headers of a server that serves finitely many pages: the header of
\* page pg is absent or empty (last page) or names a page after pg.
FiniteServerHeaders(pg) ==
    {h \in NextHeaders : HeaderFalsy(h) \/ IntOf(h.digits) > pg}

\* One turn of `while True` against such a server.
PaginateFetchFinite == FetchFrom(FiniteServerHeaders(page))

\* A walk over a finite server every request of which is answered; the
\* consumer of the generator keeps asking for the next record.
NextPaginateFinite == PaginateFetchFinite
SpecPaginateFinite ==
    InitSpecPaginate /\ [][NextPaginateFinite]_vars /\ WF_vars(PaginateFetchFinite)

(***************************************************************************)
(* Properties of GitLab._paginate                                          *)
(***************************************************************************)

\* The records of the first k visited responses, in page order.
RECURSIVE RecordsOf(_)
RecordsOf(k) ==
    IF k = 0 THEN <<>>
    ELSE RecordsOf(k - 1) \o visited[k].body.content

\* A response after which the walk goes on: a list with a next-page header.
GoesOn(v) == v.body.islist /\ v.header.present /\ v.header.digits # <<>>

\* C7: the records yielded are exactly those of the visited responses, in
\* page order and in item order within a page (a body that is not a list
\* counts as one record); the walk starts at page 1, asks next for the page
\* the previous response's header names, and stops after the first response
\* that has no (or an empty) next-page header or whose body is not a list.
C7_PaginateYieldsVisitedPages ==
    /\ yielded = RecordsOf(Len(visited))
    /\ Len(visited) >= 1 => visited[1].page = 1
    /\ \A k \in 2..Len(visited) :
          /\ GoesOn(visited[k - 1])
          /\ visited[k].page = IntOf(visited[k - 1].header.digits)
    /\ pg_pc = "done" => Len(visited) >= 1 /\ ~GoesOn(visited[Len(visited)])
    /\ (pg_pc = "fetch" /\ Len(visited) >= 1) =>
          /\ GoesOn(visited[Len(visited)])
          /\ page = IntOf(visited[Len(visited)].header.digits)

\* C7 witness: a finished walk over two list pages, the second of which is
\* not page 2, that yielded the items of both.
C7_Witness ==
    /\ pg_pc = "done"
    /\ Len(visited) = 2
    /\ visited[1].body.content = <<1, 2>>
    /\ visited[2].page = 12
    /\ visited[2].body.content = <<2>>
    /\ visited[2].body.islist
    /\ yielded = <<1, 2, 2>>

(***************************************************************************)
(* Helpers: parse_time, to_seconds, to_hours, avg, quantiles, rate         *)
(***************************************************************************)

\* A timestamp field of an API record, before parsing:
\*   Null        the field is null (for .get(): also when the key is absent)
\*   MissingKey  the key is absent (only matters for d["key"] access)
\*   WrongType   a truthy value that is not a string (5, [1])
\*   FalsyValue  a falsy value that is not a string (0, 0.0, False, [], {})
\*   EmptyString the string ""
\*   BadString   a non-empty string that is no ISO-8601 timestamp
\*   Some(t)     a well-formed timestamp of tick t >= 0
Null        == <<>>
EmptyString == <<-5>>
FalsyValue  == <<-4>>
MissingKey  == <<-3>>
WrongType   == <<-2>>
BadString   == <<-1>>
IsStamp(s) == s # Null /\ s[1] >= 0

\* The truth value of a field read with .get().
Truthy(s) == s \notin {Null, MissingKey, FalsyValue, EmptyString}

\* d.get("key"): an absent key reads as None.
DictGet(s) == IF s = MissingKey THEN Null ELSE s

\* The result of a call that may raise: exc is "none" or the exception type.
Ok(v)      == [exc |-> "none", val |-> v]
Raise(e)   == [exc |-> e, val |-> None]

\* parse_time.  ci/old: `if not s: return None` comes first, so every falsy
\* argument (None, "", 0, False, []) gives None, and so does an unparseable
\* string; a truthy non-string raises TypeError out of strptime.  devflow:
\* no guard and no inner try, so None and every other non-string raise
\* TypeError (strptime) and every unparseable string, "" included, raises
\* ValueError (fromisoformat).
parse_time(v, s) ==
    IF v = "devflow"
    THEN IF s \in {Null, FalsyValue, WrongType} THEN Raise("TypeError")
         ELSE IF s \in {EmptyString, BadString} THEN Raise("ValueError")
         ELSE Ok(Some(s[1]))
    ELSE IF s \in {Null, FalsyValue, EmptyString, BadString} THEN Ok(None)
         ELSE IF s = WrongType THEN Raise("TypeError")
         ELSE Ok(Some(s[1]))

\* to_seconds(delta): seconds rounded to 3 decimals, in ten-thousandths.
to_seconds(delta) == 10000 * delta

\* to_hours(delta): hours rounded to 3 decimals, in ten-thousandths.
to_hours(delta) == 10000 * delta

RECURSIVE SumSeq(_)
SumSeq(xs) == IF xs = <<>> THEN 0 ELSE xs[1] + SumSeq(Tail(xs))

\* Python round(): to the nearest integer, ties to the even one.
RoundHalfEven(num, den) ==
    LET q == num \div den
        rem == num % den
    IN  IF 2 * rem < den THEN q
        ELSE IF 2 * rem > den THEN q + 1
        ELSE IF q % 2 = 0 THEN q ELSE q + 1

\* sorted(values), ascending.
RECURSIVE Insert(_, _)
Insert(x, xs) ==
    IF xs = <<>> THEN <<x>>
    ELSE IF x <= xs[1] THEN <<x>> \o xs
    ELSE <<xs[1]>> \o Insert(x, Tail(xs))
RECURSIVE sorted(_)
sorted(xs) == IF xs = <<>> THEN <<>> ELSE Insert(xs[1], sorted(Tail(xs)))

Min2(a, b) == IF a <= b THEN a ELSE b
Max2(a, b) == IF a >= b THEN a ELSE b
Abs(x) == IF x < 0 THEN -x ELSE x

(***************************************************************************)
(* Python floats: IEEE 754 doubles.  A metric value of the model is a      *)
(* decimal in ten-thousandths; the program holds the double nearest to it. *)
(* Away from a decimal tie the difference cannot change a rounding to 3    *)
(* decimals, so the decimal is rounded; at a tie (the exact value half-way *)
(* between two thousandths) the double decides, and it is computed bit for *)
(* bit.  A natural number of any size is a sequence of 16-bit limbs, least *)
(* significant first, without leading zero limbs.  The values met here are *)
(* far from the overflow and the subnormal range of a double.              *)
(***************************************************************************)
MantissaBits == 53
LimbBits == 16
\* Extra quotient bits of a division; the widest shift done in one step.
GuardBits == MantissaBits + 17
ChunkBits == LimbBits - 2
Limb == 2 ^ LimbBits

RECURSIVE BigOf(_)
BigOf(n) == IF n = 0 THEN <<>> ELSE <<n % Limb>> \o BigOf(n \div Limb)

RECURSIVE BigToInt(_)
BigToInt(a) == IF a = <<>> THEN 0 ELSE a[1] + Limb * BigToInt(Tail(a))

RECURSIVE BigTrim(_)
BigTrim(a) ==
    IF a = <<>> THEN <<>>
    ELSE IF a[Len(a)] # 0 THEN a
    ELSE BigTrim(SubSeq(a, 1, Len(a) - 1))

RECURSIVE BigAddCarry(_, _, _)
BigAddCarry(a, b, c) ==
    IF a = <<>> /\ b = <<>> THEN (IF c = 0 THEN <<>> ELSE <<c>>)
    ELSE LET sum == (IF a = <<>> THEN 0 ELSE a[1])
                    + (IF b = <<>> THEN 0 ELSE b[1]) + c
         IN  <<sum % Limb>> \o BigAddCarry(IF a = <<>> THEN <<>> ELSE Tail(a),
                                           IF b = <<>> THEN <<>> ELSE Tail(b),
                                           sum \div Limb)
BigAdd(a, b) == BigAddCarry(a, b, 0)

\* a < b.
BigLess(a, b) ==
    IF Len(a) # Len(b) THEN Len(a) < Len(b)
    ELSE \E i \in 1..Len(a) :
            a[i] < b[i] /\ \A j \in (i + 1)..Len(a) : a[j] = b[j]

\* a - b - borrow for a >= b + borrow.
RECURSIVE BigSubBorrow(_, _, _)
BigSubBorrow(a, b, borrow) ==
    IF a = <<>> THEN <<>>
    ELSE LET d == a[1] - (IF b = <<>> THEN 0 ELSE b[1]) - borrow IN
         <<d % Limb>> \o BigSubBorrow(Tail(a),
                                      IF b = <<>> THEN <<>> ELSE Tail(b),
                                      IF d < 0 THEN 1 ELSE 0)
BigSub(a, b) == BigTrim(BigSubBorrow(a, b, 0))

\* a * c + carry for a natural c below 2^14.
RECURSIVE BigTimesCarry(_, _, _)
BigTimesCarry(a, c, carry) ==
    IF a = <<>> THEN (IF carry = 0 THEN <<>> ELSE <<carry>>)
    ELSE <<(a[1] * c + carry) % Limb>>
         \o BigTimesCarry(Tail(a), c, (a[1] * c + carry) \div Limb)
BigTimes(a, c) == BigTrim(BigTimesCarry(a, c, 0))

\* Quotient and remainder of a by a positive d of at most 2^14.
BigDivStep(hi, limb, d) ==
    [q |-> BigTrim(<<(hi.r * Limb + limb) \div d>> \o hi.q),
     r |-> (hi.r * Limb + limb) % d]
RECURSIVE BigDivMod(_, _)
BigDivMod(a, d) ==
    IF a = <<>> THEN [q |-> <<>>, r |-> 0]
    ELSE BigDivStep(BigDivMod(Tail(a), d), a[1], d)

\* The number of bits of a.
BitLen(a) ==
    IF a = <<>> THEN 0
    ELSE LimbBits * (Len(a) - 1)
         + (CHOOSE k \in 1..LimbBits : 2 ^ (k - 1) <= a[Len(a)] /\ a[Len(a)] < 2 ^ k)

\* a * 2^k.
RECURSIVE BigShl(_, _)
BigShl(a, k) ==
    IF k = 0 THEN a
    ELSE BigShl(BigTimes(a, 2 ^ Min2(k, ChunkBits)), k - Min2(k, ChunkBits))

\* a \div 2^k, and whether a bit that was dropped (or sticky) is set.
RECURSIVE BigShr(_, _, _)
BigShrStep(qr, k, sticky) == BigShr(qr.q, k, sticky \/ qr.r # 0)
BigShr(a, k, sticky) ==
    IF k = 0 THEN [q |-> a, sticky |-> sticky]
    ELSE BigShrStep(BigDivMod(a, 2 ^ Min2(k, ChunkBits)), k - Min2(k, ChunkBits), sticky)

\* (a + f) \div 2^k rounded to the nearest integer, ties to the even one,
\* for k >= 1 and a fraction f below 1 that is not 0 exactly if sticky.
BigRoundHalf(half, sticky) ==
    IF half.r = 1 /\ (sticky \/ (half.q # <<>> /\ half.q[1] % 2 = 1))
    THEN BigAdd(half.q, <<1>>)
    ELSE half.q
BigRoundLast(lo) == BigRoundHalf(BigDivMod(lo.q, 2), lo.sticky)
BigRoundShr(a, k, sticky) == BigRoundLast(BigShr(a, k - 1, sticky))

\* A double: (-1)^neg * m * 2^e with a mantissa m of at most 53 bits (2^53
\* included); zero has the empty mantissa.
FloatZero == [neg |-> FALSE, m |-> <<>>, e |-> 0]
IsZero(x) == x.m = <<>>

\* The double nearest to (-1)^neg * (n + f) * 2^e, ties to the even mantissa;
\* n has len bits.
DoubleOfLen(neg, n, e, sticky, len) ==
    IF len <= MantissaBits THEN [neg |-> neg, m |-> n, e |-> e]
    ELSE [neg |-> neg,
          m |-> BigRoundShr(n, len - MantissaBits, sticky),
          e |-> e + len - MantissaBits]
Double(neg, n, e, sticky) == DoubleOfLen(neg, n, e, sticky, BitLen(n))

FloatNeg(x) == [x EXCEPT !.neg = ~@]

\* The mantissa of x at the smaller of the exponents of x and y.
Aligned(x, y) == BigShl(x.m, x.e - Min2(x.e, y.e))

\* abs(x) >= abs(y)
FloatAbsGe(x, y) ==
    IF IsZero(y) THEN TRUE
    ELSE IF IsZero(x) THEN FALSE
    ELSE ~BigLess(Aligned(x, y), Aligned(y, x))

\* (-1)^xneg * a + (-1)^yneg * b for naturals a and b: sign and magnitude.
SignedSum(xneg, a, yneg, b) ==
    IF xneg = yneg THEN [neg |-> xneg, m |-> BigAdd(a, b)]
    ELSE IF BigLess(a, b) THEN [neg |-> yneg, m |-> BigSub(b, a)]
    ELSE [neg |-> xneg, m |-> BigSub(a, b)]

\* The double of an exact sum s * 2^e; the sum of opposite numbers is +0.0.
DoubleOfSum(s, e) == IF s.m = <<>> THEN FloatZero ELSE Double(s.neg, s.m, e, FALSE)

\* x + y: the exact sum, rounded once.
FloatAdd(x, y) ==
    IF IsZero(x) THEN y
    ELSE IF IsZero(y) THEN x
    ELSE DoubleOfSum(SignedSum(x.neg, Aligned(x, y), y.neg, Aligned(y, x)),
                     Min2(x.e, y.e))

FloatSub(x, y) == FloatAdd(x, FloatNeg(y))

\* x / d for a double x and a positive integer d of at most 2^14.
DoubleOfQuotient(neg, qr, e) == Double(neg, qr.q, e, qr.r # 0)
FloatDivInt(x, d) ==
    DoubleOfQuotient(x.neg, BigDivMod(BigShl(x.m, GuardBits), d), x.e - GuardBits)

\* The double of a natural number below 2^53.
FloatOfNat(n) == [neg |-> FALSE, m |-> BigOf(n), e |-> 0]

\* The double a decimal of x ten-thousandths is read as.
FloatOf(x) == FloatDivInt([neg |-> x < 0, m |-> BigOf(Abs(x)), e |-> 0], 10000)

\* How the interpreter's sum() adds floats.  The scripts name no interpreter
\* version, and sum() is the interpreter's: up to CPython 3.11 it adds the
\* doubles from left to right, from CPython 3.12 on it adds them with a
\* running compensation (Neumaier) that is added at the end.
SumImpls == {"left_to_right", "compensated"}

\* sum(values), left to right: the floats fs are added to the total.
RECURSIVE FloatSumFrom(_, _)
FloatSumFrom(total, fs) ==
    IF fs = <<>> THEN total
    ELSE FloatSumFrom(FloatAdd(total, fs[1]), Tail(fs))

\* What the addition big + small = t has lost of small, where
\* abs(big) >= abs(small).
Lost(big, small, t) == FloatAdd(FloatSub(big, t), small)

\* One item x of the compensated sum: the new total t and the compensation,
\* which gains what the addition has lost of the smaller operand; ge is
\* abs(total) >= abs(x).
NeumaierOrdered(total, c, x, t, ge) ==
    [total |-> t,
     c     |-> FloatAdd(c, Lost(IF ge THEN total ELSE x, IF ge THEN x ELSE total, t))]
NeumaierStep(total, c, x, t) == NeumaierOrdered(total, c, x, t, FloatAbsGe(total, x))

\* sum(values), compensated; st is the total and the compensation so far,
\* fs the floats still to add.
RECURSIVE NeumaierFrom(_, _)
NeumaierFrom(st, fs) ==
    IF fs = <<>>
    THEN (IF IsZero(st.c) THEN st.total ELSE FloatAdd(st.total, st.c))
    ELSE NeumaierFrom(
            CHOOSE next \in {NeumaierStep(f, c, x, t) :
                                f \in {st.total}, c \in {st.c}, x \in {fs[1]},
                                t \in {FloatAdd(st.total, fs[1])}} : TRUE,
            Tail(fs))

\* sum(fs) of a non-empty list of floats.  The first item is added to the
\* int 0, which gives the item itself.
SumOfFloats(fs) ==
    CASE py_sum = "compensated" ->
            NeumaierFrom([total |-> fs[1], c |-> FloatZero], Tail(fs))
      [] py_sum = "left_to_right" -> FloatSumFrom(fs[1], Tail(fs))

\* sum(values) of a list of floats given in ten-thousandths.
FloatSum(values) ==
    IF values = <<>> THEN FloatZero
    ELSE SumOfFloats([i \in DOMAIN values |-> FloatOf(values[i])])

\* round(x, n) of a double for scale = 10^n: the multiple of 1/scale nearest
\* to its exact value, ties to the even one; in units of 1/scale.
FloatRoundTo(x, scale) ==
    (IF x.neg THEN -1 ELSE 1)
    * (IF x.e >= 0 THEN BigToInt(BigShl(BigTimes(x.m, scale), x.e))
       ELSE BigToInt(BigRoundShr(BigTimes(x.m, scale), 0 - x.e, FALSE)))

\* round(x, 3) of a double, in ten-thousandths.
FloatRound3(x) == 10 * FloatRoundTo(x, 1000)

\* No rounding at all.
round3_Identity(x) == x

\* round(x, 3) of a value in ten-thousandths.
round3(x) ==
    IF x % 10 = 5 THEN FloatRound3(FloatOf(x))
    ELSE 10 * RoundHalfEven(x, 10)

\* avg(values): round(sum/len, 3), None for an empty list.
avg(values) ==
    IF values = <<>> THEN None
    ELSE IF SumSeq(values) % (10 * Len(values)) = 5 * Len(values)
    THEN Some(FloatRound3(FloatDivInt(FloatSum(values), Len(values))))
    ELSE Some(10 * RoundHalfEven(SumSeq(values), 10 * Len(values)))

\* quantiles(values, q) with q given in tenths (5 for 0.50, 9 for 0.90).
quantiles(values, q10) ==
    IF values = <<>> THEN None
    ELSE LET vals == sorted(values)
             idx  == Max2(0, Min2(Len(vals) - 1,
                                  RoundHalfEven((Len(vals) - 1) * q10, 10)))
         IN  Some(round3(vals[idx + 1]))

CountEq(xs, x) == Cardinality({i \in 1..Len(xs) : xs[i] = x})

\* rate(statuses): round(successes/len, 4) in ten-thousandths, None if
\* empty.  The quotient is a double, and round() rounds the double; the
\* double lies within 2^-53 of the fraction, so that the two round alike
\* unless the fraction is a tie (1/160 = 0.00625), where the double decides.
rate(statuses) ==
    LET good == CountEq(statuses, "success")
        n    == Len(statuses)
    IN  IF statuses = <<>> THEN None
        ELSE IF 2 * ((10000 * good) % n) = n
        THEN Some(FloatRoundTo(FloatDivInt(FloatOfNat(good), n), 10000))
        ELSE Some(RoundHalfEven(10000 * good, n))

\* A cell handed to the CSV layer: blank ("") or a number.
Blank  == [blank |-> TRUE, v |-> 0]
Num(x) == [blank |-> FALSE, v |-> x]

\* `x or ""`: None and every falsy number (0, 0.0) become "".
OrBlank(opt) == IF opt = None \/ opt[1] = 0 THEN Blank ELSE Num(opt[1])

\* `x if x is not None else ""`
BlankIfNone(opt) == IF opt = None THEN Blank ELSE Num(opt[1])

\* isinstance(x, (int, float)) for a JSON field: null is not a number.
IsNumber(opt) == opt # None

(***************************************************************************)
(* CI: jobs, stages and the processing of one pipeline                     *)
(***************************************************************************)

StageNames == {"build", "test", "unknown"}
EmptyStages == [st \in StageNames |-> <<>>]

\* compute_job_queue_seconds(job)
compute_job_queue_seconds(v, job) ==
    IF IsNumber(job.queued_duration) THEN Ok(job.queued_duration)
    ELSE LET created == parse_time(v, DictGet(job.created_at)) IN
         IF created.exc # "none" THEN created
         ELSE LET started == parse_time(v, DictGet(job.started_at)) IN
              IF started.exc # "none" THEN started
              ELSE IF created.val # None /\ started.val # None
                   THEN Ok(Some(to_seconds(started.val[1] - created.val[1])))
                   ELSE Ok(None)

\* compute_job_duration_seconds(job)
compute_job_duration_seconds(v, job) ==
    IF IsNumber(job.duration) THEN Ok(job.duration)
    ELSE LET started == parse_time(v, DictGet(job.started_at)) IN
         IF started.exc # "none" THEN started
         ELSE LET finished == parse_time(v, DictGet(job.finished_at)) IN
              IF finished.exc # "none" THEN finished
              ELSE IF started.val # None /\ finished.val # None
                   THEN Ok(Some(to_seconds(finished.val[1] - started.val[1])))
                   ELSE Ok(None)

\* `[q for q in (compute_job_queue_seconds(j) for j in jobs) if q is not None]`
RECURSIVE job_queues(_, _)
job_queues(v, jobs) ==
    IF jobs = <<>> THEN Ok(<<>>)
    ELSE LET q == compute_job_queue_seconds(v, jobs[1]) IN
         IF q.exc # "none" THEN q
         ELSE LET rest == job_queues(v, Tail(jobs)) IN
              IF rest.exc # "none" THEN rest
              ELSE Ok(q.val \o rest.val)

\* The loop `for j in jobs: ... stage_durations.setdefault(stg, []).append(jd)`
\* run on the map m.  When a job raises, the map keeps what the jobs before
\* it appended.
RECURSIVE stage_loop(_, _, _)
stage_loop(v, jobs, m) ==
    IF jobs = <<>> THEN [exc |-> "none", map |-> m]
    ELSE LET j   == jobs[1]
             stg == IF j.stage = None THEN "unknown" ELSE j.stage[1]
             jd  == compute_job_duration_seconds(v, j)
         IN  IF jd.exc # "none" THEN [exc |-> jd.exc, map |-> m]
             ELSE stage_loop(v, Tail(jobs),
                     IF jd.val # None
                     THEN [m EXCEPT ![stg] = Append(@, jd.val[1])]
                     ELSE m)

\* A string of the server in any letter case: its letters in lower case and
\* the positions of its upper-case letters ('Success' is Cased("success",
\* {1}), 'FAILED' is Cased("failed", 1..6)).  A string the program itself
\* writes or has lower-cased is the plain string.
Cased(text, caps) == [text |-> text, caps |-> caps]

\* str.lower(): every letter in lower case, whatever its case was.
Lower(str) == str.text

IsDefaultBranch(project, ref) ==
    project.default_branch # None /\ ref = project.default_branch[1]

\* The lookback test of all three programs:
\* `if not created_at or created_at < since: continue` (ci, old) and
\* `if merged_at is None or merged_at < since: continue` (devflow).
InWindow(t, since) == t # None /\ t[1] >= since

\* What processing one entity came to: outcome is "fact", "skip" (not in the
\* window) or "failed" (exc raised); t is the defining timestamp when it was
\* determined; dur_sec and queue_mean are the loop's locals of those names.
NoFact == [project_path |-> 0]
Step(outcome, exc, t, fact, map) ==
    [outcome |-> outcome, exc |-> exc, t |-> t, fact |-> fact, stage_map |-> map,
     dur_sec |-> None, queue_mean |-> None]

\* The body shared by ci's loop iteration (lines 184-233) and old's
\* process_single_pipeline (lines 213-275): from the window test to the fact
\* row.  stage_map is what the stage loop appended (old: to its local map;
\* ci: to the project's map, also when a later job raises).
pipeline_steps(v, project, p, since) ==
    LET c == parse_time(v, DictGet(p.created_at)) IN
    IF c.exc # "none" THEN Step("failed", c.exc, None, NoFact, EmptyStages) ELSE
    LET u == IF c.val # None THEN c ELSE parse_time(v, DictGet(p.updated_at)) IN
    IF u.exc # "none" THEN Step("failed", u.exc, None, NoFact, EmptyStages) ELSE
    LET created_at == u.val IN
    IF ~InWindow(created_at, since)
    THEN Step("skip", "none", created_at, NoFact, EmptyStages) ELSE
    IF ~p.has_id THEN Step("failed", "KeyError", created_at, NoFact, EmptyStages) ELSE
    IF p.detail_out # "ok"
    THEN Step("failed", p.detail_out, created_at, NoFact, EmptyStages) ELSE
    LET ref    == IF p.ref = None THEN "" ELSE p.ref[1]
        status == IF p.status = None THEN "" ELSE Lower(p.status[1])
        st     == parse_time(v, DictGet(p.started_at))
    IN
    IF st.exc # "none" THEN Step("failed", st.exc, created_at, NoFact, EmptyStages) ELSE
    LET fi == parse_time(v, DictGet(p.finished_at)) IN
    IF fi.exc # "none" THEN Step("failed", fi.exc, created_at, NoFact, EmptyStages) ELSE
    LET dur_sec == IF IsNumber(p.duration) THEN p.duration
                   ELSE IF st.val # None /\ fi.val # None
                        THEN Some(to_seconds(fi.val[1] - st.val[1]))
                        ELSE None
    IN
    IF p.jobs_out # "ok"
    THEN Step("failed", p.jobs_out, created_at, NoFact, EmptyStages) ELSE
    LET jq == job_queues(v, p.jobs) IN
    IF jq.exc # "none" THEN Step("failed", jq.exc, created_at, NoFact, EmptyStages) ELSE
    LET queue_mean == avg(jq.val)
        sl == stage_loop(v, p.jobs, EmptyStages)
    IN
    IF sl.exc # "none" THEN Step("failed", sl.exc, created_at, NoFact, sl.map) ELSE
    [Step("fact", "none", created_at,
          [project_path      |-> project.path,
           ref               |-> ref,
           is_default_branch |-> IF IsDefaultBranch(project, ref) THEN 1 ELSE 0,
           status            |-> status,
           created_at        |-> created_at[1],
           duration_sec      |-> OrBlank(dur_sec),
           queue_mean_sec    |-> OrBlank(queue_mean),
           jobs_total        |-> Len(p.jobs)],
          sl.map)
     EXCEPT !.dur_sec = dur_sec, !.queue_mean = queue_mean]

(***************************************************************************)
(* DevFlow: the heuristics and the processing of one merge request         *)
(***************************************************************************)

\* `any(p in b for p in READY_PATTERNS)` on the lower-cased body.  The note
\* bodies of the model are "ready" (GitLab's "marked this merge request as
\* ready"), "draft" ("marked this merge request as draft") and "other".
MatchesReady_OrDraft(body) == body \in {"ready", "draft"}
MatchesReady(body) == body = "ready"
MatchesDraft(body) == body = "draft"

\* n["created_at"] then parse_time: KeyError for an absent key.
note_time(n) ==
    IF n.created_at = MissingKey THEN Raise("KeyError")
    ELSE parse_time("devflow", n.created_at)

\* find_ready_time(created_at, notes), started with ready_time = created_at.
RECURSIVE find_ready_time(_, _)
find_ready_time(ready_time, notes) ==
    IF notes = <<>> THEN Ok(ready_time)
    ELSE LET n == notes[1] IN
         IF ~n.system THEN find_ready_time(ready_time, Tail(notes))
         ELSE LET t == note_time(n) IN
              IF t.exc # "none" THEN t
              ELSE IF MatchesReady(n.body)
                   THEN find_ready_time(t.val[1], Tail(notes))
                   ELSE find_ready_time(ready_time, Tail(notes))

\* A test that takes every signed note for a review, the author's included.
IsReviewer_AnyAuthor(n, mr_author) == n.author # None

\* `author and author != mr_author` for (n.get("author") or {}).get("username")
IsReviewer(n, mr_author) == n.author # None /\ n.author[1] # mr_author

\* compute_ttfr(created_at, mr_author, notes)
RECURSIVE compute_ttfr(_, _, _)
compute_ttfr(created_at, mr_author, notes) ==
    IF notes = <<>> THEN Ok(None)
    ELSE LET n == notes[1] IN
         IF n.system \/ ~IsReviewer(n, mr_author)
         THEN compute_ttfr(created_at, mr_author, Tail(notes))
         ELSE LET t == note_time(n) IN
              IF t.exc # "none" THEN t
              ELSE IF t.val[1] >= created_at
                   THEN Ok(Some(to_hours(t.val[1] - created_at)))
                   ELSE compute_ttfr(created_at, mr_author, Tail(notes))

\* The first loop of compute_review_rounds: the review events.
RECURSIVE review_events(_, _, _, _)
review_events(mr_author, notes, start_time, merged_at) ==
    IF notes = <<>> THEN Ok(<<>>)
    ELSE LET n == notes[1] IN
         IF n.system \/ ~IsReviewer(n, mr_author)
         THEN review_events(mr_author, Tail(notes), start_time, merged_at)
         ELSE LET t == note_time(n) IN
              IF t.exc # "none" THEN t
              ELSE LET rest == review_events(mr_author, Tail(notes), start_time, merged_at) IN
                   IF rest.exc # "none" THEN rest
                   ELSE IF start_time <= t.val[1] /\ t.val[1] <= merged_at
                        THEN Ok(<<[t |-> t.val[1], kind |-> "review"]>> \o rest.val)
                        ELSE rest

\* A second loop that takes every commit, whenever it was made.
commit_events_All(commits, start_time, merged_at) ==
    Ok([i \in 1..Len(commits) |-> [t |-> commits[i].created_at[1], kind |-> "commit"]])

\* The second loop of compute_review_rounds: the commit events.
RECURSIVE commit_events(_, _, _)
commit_events(commits, start_time, merged_at) ==
    IF commits = <<>> THEN Ok(<<>>)
    ELSE LET t == note_time(commits[1]) IN
         IF t.exc # "none" THEN t
         ELSE LET rest == commit_events(Tail(commits), start_time, merged_at) IN
              IF rest.exc # "none" THEN rest
              ELSE IF start_time <= t.val[1] /\ t.val[1] <= merged_at
                   THEN Ok(<<[t |-> t.val[1], kind |-> "commit"]>> \o rest.val)
                   ELSE rest

\* A sort that compares the whole tuple: "commit" sorts before "review".
RECURSIVE InsertEvent_ByTuple(_, _)
InsertEvent_ByTuple(e, es) ==
    IF es = <<>> THEN <<e>>
    ELSE IF e.t < es[1].t \/ (e.t = es[1].t /\ e.kind = "commit" /\ es[1].kind = "review")
         THEN <<e>> \o es
    ELSE <<es[1]>> \o InsertEvent_ByTuple(e, Tail(es))

\* events.sort(key=lambda x: x[0]): a stable sort by timestamp.
RECURSIVE InsertEvent(_, _)
InsertEvent(e, es) ==
    IF es = <<>> THEN <<e>>
    ELSE IF e.t < es[1].t THEN <<e>> \o es
    ELSE <<es[1]>> \o InsertEvent(e, Tail(es))
RECURSIVE sort_events(_)
sort_events(es) ==
    IF es = <<>> THEN <<>>
    ELSE InsertEvent(es[Len(es)], sort_events(SubSeq(es, 1, Len(es) - 1)))

\* A counter that takes every commit for the answer to a review.
count_rounds_EveryCommit(events, rounds, awaiting_commit) ==
    rounds + Cardinality({i \in 1..Len(events) : events[i].kind = "commit"})

\* The loop over the sorted events: rounds and awaiting_commit.
RECURSIVE count_rounds(_, _, _)
count_rounds(events, rounds, awaiting_commit) ==
    IF events = <<>> THEN rounds
    ELSE IF events[1].kind = "review"
         THEN count_rounds(Tail(events), rounds, TRUE)
         ELSE IF events[1].kind = "commit" /\ awaiting_commit
              THEN count_rounds(Tail(events), rounds + 1, FALSE)
              ELSE count_rounds(Tail(events), rounds, awaiting_commit)

\* compute_review_rounds(mr_author, notes, commits, start_time, merged_at)
compute_review_rounds(mr_author, notes, commits, start_time, merged_at) ==
    LET rv == review_events(mr_author, notes, start_time, merged_at) IN
    IF rv.exc # "none" THEN rv
    ELSE LET cm == commit_events(commits, start_time, merged_at) IN
         IF cm.exc # "none" THEN cm
         ELSE Ok(count_rounds(sort_events(rv.val \o cm.val), 0, FALSE))

\* Buckets whose upper bounds are exclusive.
size_bucket_ExclusiveUpper(files_changed) ==
    IF files_changed = None THEN "unknown"
    ELSE IF files_changed[1] < 3 THEN "xs"
    ELSE IF files_changed[1] < 10 THEN "s"
    ELSE IF files_changed[1] < 25 THEN "m"
    ELSE IF files_changed[1] < 50 THEN "l"
    ELSE "xl"

\* size_bucket(files_changed)
size_bucket(files_changed) ==
    IF files_changed = None THEN "unknown"
    ELSE IF files_changed[1] <= 3 THEN "xs"
    ELSE IF files_changed[1] <= 10 THEN "s"
    ELSE IF files_changed[1] <= 25 THEN "m"
    ELSE IF files_changed[1] <= 50 THEN "l"
    ELSE "xl"

\* One iteration of devflow's loop `for mr in merged_mrs` up to the MRFact
\* (lines 568-605).
mr_steps(project, mr, since) ==
    IF ~mr.has_iid THEN Step("failed", "KeyError", None, NoFact, EmptyStages) ELSE
    IF mr.detail_out # "ok"
    THEN Step("failed", mr.detail_out, None, NoFact, EmptyStages) ELSE
    LET c == note_time(mr) IN
    IF c.exc # "none" THEN Step("failed", c.exc, None, NoFact, EmptyStages) ELSE
    LET created_at == c.val[1]
        m == IF ~Truthy(mr.merged_at) THEN Ok(None)
             ELSE parse_time("devflow", mr.merged_at)
    IN
    IF m.exc # "none" THEN Step("failed", m.exc, None, NoFact, EmptyStages) ELSE
    LET merged_at == m.val IN
    IF ~InWindow(merged_at, since)
    THEN Step("skip", "none", merged_at, NoFact, EmptyStages) ELSE
    IF mr.notes_out # "ok"
    THEN Step("failed", mr.notes_out, merged_at, NoFact, EmptyStages) ELSE
    IF mr.commits_out # "ok"
    THEN Step("failed", mr.commits_out, merged_at, NoFact, EmptyStages) ELSE
    IF mr.changes_out # "ok"
    THEN Step("failed", mr.changes_out, merged_at, NoFact, EmptyStages) ELSE
    LET files_changed   == Some(mr.files)
        author_username == IF mr.author = None THEN "unknown" ELSE mr.author[1]
        start           == find_ready_time(created_at, mr.notes)
    IN
    IF start.exc # "none"
    THEN Step("failed", start.exc, merged_at, NoFact, EmptyStages) ELSE
    LET start_time == start.val
        ttm_h      == Some(to_hours(merged_at[1] - start_time))
        ttfr       == compute_ttfr(created_at, author_username, mr.notes)
    IN
    IF ttfr.exc # "none"
    THEN Step("failed", ttfr.exc, merged_at, NoFact, EmptyStages) ELSE
    LET rounds == compute_review_rounds(author_username, mr.notes, mr.commits,
                                        start_time, merged_at[1])
    IN
    IF rounds.exc # "none"
    THEN Step("failed", rounds.exc, merged_at, NoFact, EmptyStages) ELSE
    IF ~mr.has_id THEN Step("failed", "KeyError", merged_at, NoFact, EmptyStages) ELSE
    Step("fact", "none", merged_at,
         [project_path           |-> project.path,
          created_at             |-> created_at,
          merged_at              |-> merged_at[1],
          start_time             |-> start_time,
          time_to_merge_h        |-> ttm_h,
          time_to_first_review_h |-> ttfr.val,
          review_rounds          |-> rounds.val,
          files_changed          |-> files_changed],
         EmptyStages)

(***************************************************************************)
(* collect_for_project: accumulators, the fold of one entity, the rollup   *)
(***************************************************************************)

SizeBuckets == {"xs", "s", "m", "l", "xl"}

\* The lists collect_for_project creates before its loop.
InitAcc ==
    [facts              |-> <<>>,
     all_durations      |-> <<>>,
     all_queues         |-> <<>>,
     all_statuses       |-> <<>>,
     default_durations  |-> <<>>,
     default_statuses   |-> <<>>,
     stage_durations    |-> EmptyStages,
     mttm_list          |-> <<>>,
     ttfr_list          |-> <<>>,
     review_rounds_list |-> <<>>,
     size_counts        |-> [b \in SizeBuckets |-> 0]]

AppendIf(cond, xs, x) == IF cond THEN Append(xs, x) ELSE xs

\* stage_durations.setdefault(stg, []).extend(durs) for every stage of m.
MergeStages(into, m) == [st \in StageNames |-> into[st] \o m[st]]

\* A collector that counts every listed stub, whatever became of it.
ci_fold_CountsEveryStub(a, step) ==
    [a EXCEPT !.facts        = AppendIf(step.outcome = "fact", @, step.fact),
              !.all_statuses = Append(@, "unknown")]

\* ci, lines 211-243: what one loop iteration leaves in the accumulators.
\* The stage loop runs before the fact is appended, on the project's map.
ci_fold(a, step) ==
    LET a1 == [a EXCEPT !.stage_durations = MergeStages(@, step.stage_map)] IN
    IF step.outcome # "fact" THEN a1
    ELSE LET f    == step.fact
             dflt == f.is_default_branch = 1
         IN [a1 EXCEPT
               !.facts             = Append(@, f),
               !.all_durations     = AppendIf(step.dur_sec # None, @, step.dur_sec[1]),
               !.default_durations = AppendIf(step.dur_sec # None /\ dflt, @, step.dur_sec[1]),
               !.all_queues        = AppendIf(step.queue_mean # None, @, step.queue_mean[1]),
               !.all_statuses      = Append(@, f.status),
               !.default_statuses  = AppendIf(dflt, @, f.status)]

\* What process_single_pipeline hands back to collect_for_project (old):
\* `return fact, stage_durations`, or `return None` both at the window test
\* and in the `except Exception` handler.  In ci and devflow the loop body
\* stands in its place: the fact is appended, or the iteration ends with
\* `continue` at the window test and in the handler alike.
process_result(step) ==
    IF step.outcome = "fact" THEN Some([fact |-> step.fact, stage_map |-> step.stage_map])
    ELSE None

\* old, lines 305-325: the collector's handling of one completed future.
\* `if not res: continue`; the lists are fed from the cells of the fact row.
old_fold(a, res) ==
    IF res = None THEN a
    ELSE LET f    == res[1].fact
             dflt == f.is_default_branch = 1
             dur   == f.duration_sec
             queue == f.queue_mean_sec
         IN [a EXCEPT
               !.facts             = Append(@, f),
               !.all_durations     = AppendIf(~dur.blank, @, dur.v),
               !.default_durations = AppendIf(~dur.blank /\ dflt, @, dur.v),
               !.all_queues        = AppendIf(~queue.blank, @, queue.v),
               !.all_statuses      = Append(@, f.status),
               !.default_statuses  = AppendIf(dflt, @, f.status),
               !.stage_durations   = MergeStages(@, res[1].stage_map)]

\* devflow, lines 591-612.
devflow_fold(a, step) ==
    IF step.outcome # "fact" THEN a
    ELSE LET f == step.fact IN
         [a EXCEPT
            !.facts              = Append(@, f),
            !.mttm_list          = AppendIf(f.time_to_merge_h # None, @, f.time_to_merge_h[1]),
            !.ttfr_list          = AppendIf(f.time_to_first_review_h # None, @,
                                            f.time_to_first_review_h[1]),
            !.review_rounds_list = Append(@, f.review_rounds),
            !.size_counts        = [@ EXCEPT ![size_bucket(f.files_changed)] = @ + 1]]

Fold(v, a, step) ==
    IF v = "devflow" THEN devflow_fold(a, step)
    ELSE IF v = "ci" THEN ci_fold(a, step)
    ELSE old_fold(a, process_result(step))

\* `[float(r) for r in review_rounds_list]`, in ten-thousandths.
RECURSIVE Floats(_)
Floats(xs) ==
    IF xs = <<>> THEN <<>> ELSE <<10000 * xs[1]>> \o Floats(Tail(xs))

\* The rollup dict of ci (lines 254-269) and old (lines 330-345).
rollup_ci(project, a) ==
    [project_path             |-> project.path,
     pipelines_total          |-> Len(a.all_statuses),
     pipelines_success        |-> CountEq(a.all_statuses, "success"),
     success_rate             |-> OrBlank(rate(a.all_statuses)),
     duration_mean_sec        |-> OrBlank(avg(a.all_durations)),
     duration_p50_sec         |-> OrBlank(quantiles(a.all_durations, 5)),
     duration_p90_sec         |-> OrBlank(quantiles(a.all_durations, 9)),
     queue_mean_sec           |-> OrBlank(avg(a.all_queues)),
     queue_p50_sec            |-> OrBlank(quantiles(a.all_queues, 5)),
     queue_p90_sec            |-> OrBlank(quantiles(a.all_queues, 9)),
     default_branch           |-> project.default_branch,
     default_success_rate     |-> OrBlank(rate(a.default_statuses)),
     default_duration_p50_sec |-> OrBlank(quantiles(a.default_durations, 5)),
     default_duration_p90_sec |-> OrBlank(quantiles(a.default_durations, 9))]

\* The ProjectRollup of devflow (lines 630-646).
rollup_devflow(project, a) ==
    [project_path      |-> project.path,
     mrs_merged        |-> Len(a.facts),
     mttm_mean_h       |-> avg(a.mttm_list),
     mttm_p50_h        |-> quantiles(a.mttm_list, 5),
     mttm_p90_h        |-> quantiles(a.mttm_list, 9),
     ttfr_mean_h       |-> avg(a.ttfr_list),
     ttfr_p50_h        |-> quantiles(a.ttfr_list, 5),
     ttfr_p90_h        |-> quantiles(a.ttfr_list, 9),
     review_rounds_avg |-> avg(Floats(a.review_rounds_list)),
     size_counts       |-> a.size_counts]

Rollup(v, project, a) ==
    IF v = "devflow" THEN rollup_devflow(project, a)
    ELSE rollup_ci(project, a)

\* stage_rows: (stage, job count, `avg(durs) or 0.0`) per non-empty stage.
stage_rows(a) ==
    {[stage |-> st, jobs_count |-> Len(a.stage_durations[st]),
      avg_sec |-> LET m == avg(a.stage_durations[st]) IN
                  IF m = None THEN 0 ELSE m[1]] :
        st \in {x \in StageNames : a.stage_durations[x] # <<>>}}

(***************************************************************************)
(* The modelled server: what the API calls of one run may answer           *)
(***************************************************************************)

\* Bounds of the model.
MaxProjects == 2
MaxEntities == 2
\* Pipelines of all projects together in a whole run of the concurrent
\* script.
MaxPipelines == 2
\* `dt.datetime.now(...)` at the start of main, and `--days`, in ticks.
Now == 4
LookbackTicks == 2

\* `since = now - timedelta(days=args.days)`
Since == Now - LookbackTicks

\* The exceptions an API call (self._get, r.json()) can raise.
ApiErrors == {"HTTPError", "Timeout"}

\* A job of a pipeline as get_pipeline_jobs returns it.
BaseJob ==
    [status |-> Some("success"), stage |-> Some("build"),
     queued_duration |-> None, created_at |-> Null, started_at |-> Null,
     duration |-> None, finished_at |-> Null]

JobLists ==
    { <<>>,
      \* queued_duration 0, duration 0
      <<[BaseJob EXCEPT !.queued_duration = Some(0), !.duration = Some(0)]>>,
      \* no queued_duration: queue and duration derived from the timestamps
      <<[BaseJob EXCEPT !.created_at = Some(Since), !.started_at = Some(Since),
                        !.finished_at = Some(Now), !.stage = None]>>,
      <<[BaseJob EXCEPT !.queued_duration = Some(30000), !.duration = Some(10000)],
        [BaseJob EXCEPT !.status = Some("failed"), !.stage = Some("test"),
                        !.queued_duration = Some(10000)]>> }

\* A pipeline: the stub of list_pipelines (has_id .. status), the outcome and
\* fields of get_pipeline (detail_out .. finished_at), and get_pipeline_jobs.
BasePipeline ==
    [has_id |-> TRUE, created_at |-> Some(Now), updated_at |-> Null,
     ref |-> Some("main"), status |-> Some(Cased("success", {})),
     detail_out |-> "ok", duration |-> Some(20000),
     started_at |-> Null, finished_at |-> Null,
     jobs_out |-> "ok", jobs |-> <<>>]

PipelineWindowInputs ==
    {[BasePipeline EXCEPT !.created_at = c] :
        c \in {Null, BadString, FalsyValue, Some(Since - 1), Some(Since), Some(Now),
               Some(Now + 1)}}
    \cup
    {[BasePipeline EXCEPT !.created_at = c, !.updated_at = u] :
        c \in {Null, BadString}, u \in {Some(Since - 1), Some(Now)}}

PipelineValueInputs ==
    {[BasePipeline EXCEPT !.duration = d[1], !.started_at = d[2], !.finished_at = d[3]] :
        d \in {<<None, Null, Null>>, <<None, Some(Since), Some(Since)>>,
               <<None, Some(Since), Some(Now)>>, <<Some(0), Null, Null>>}}
    \cup {[BasePipeline EXCEPT !.jobs = j] : j \in JobLists}
    \cup {[BasePipeline EXCEPT !.ref = Some("feat"),
                                !.status = Some(Cased("failed", {}))],
          [BasePipeline EXCEPT !.status = Some(Cased("failed", 1..6))],
          [BasePipeline EXCEPT !.status = Some(Cased("success", {1}))],
          [BasePipeline EXCEPT !.status = Some(Cased("canceled", 1..8))],
          [BasePipeline EXCEPT !.ref = None, !.status = None]}

PipelineFailureInputs ==
    {[BasePipeline EXCEPT !.detail_out = e] : e \in ApiErrors}
    \cup {[BasePipeline EXCEPT !.jobs_out = "HTTPError"],
          [BasePipeline EXCEPT !.has_id = FALSE],
          [BasePipeline EXCEPT !.created_at = WrongType],
          \* the second job's finished_at is not a string: its duration raises
          \* TypeError after the first job's duration was computed
          [BasePipeline EXCEPT !.jobs =
              <<[BaseJob EXCEPT !.queued_duration = Some(0), !.duration = Some(10000)],
                [BaseJob EXCEPT !.queued_duration = Some(0),
                                !.finished_at = WrongType]>>]}

\* A note of a merge request.
Note(system, body, author, t) ==
    [system |-> system, body |-> body, author |-> author, created_at |-> t]
Commit(t) == [created_at |-> t]

\* A merge request: the stub of list_merge_requests (has_iid), the outcome
\* and fields of get_merge_request (has_id: the detail has an "id"), and the
\* three sub-resources.
BaseMR ==
    [has_iid |-> TRUE, detail_out |-> "ok", has_id |-> TRUE,
     created_at |-> Some(Since), merged_at |-> Some(Now), author |-> Some("alice"),
     notes_out |-> "ok", notes |-> <<>>,
     commits_out |-> "ok", commits |-> <<>>,
     changes_out |-> "ok", files |-> 2]

MRWindowInputs ==
    {[BaseMR EXCEPT !.merged_at = m] :
        m \in {Null, MissingKey, EmptyString, FalsyValue,
               Some(Since - 1), Some(Since), Some(Now), Some(Now + 1)}}
    \cup {[BaseMR EXCEPT !.created_at = Some(Since - 1), !.merged_at = Some(Since - 1)]}

MRValueInputs ==
    {[BaseMR EXCEPT !.notes = n[1], !.commits = n[2], !.files = n[3]] :
        n \in { \* a review at creation time: time to first review 0
                <<<<Note(FALSE, "other", Some("bob"), Some(Since))>>, <<>>, 3>>,
                \* marked ready at merge time: time to merge 0
                <<<<Note(TRUE, "ready", None, Some(Now))>>, <<>>, 4>>,
                \* a review answered by a commit: one round
                <<<<Note(FALSE, "other", Some("bob"), Some(Since + 1))>>,
                  <<Commit(Some(Now))>>, 60>>,
                \* the author's own note, then a draft note
                <<<<Note(FALSE, "other", Some("alice"), Some(Since)),
                    Note(TRUE, "draft", None, Some(Since + 1))>>,
                  <<Commit(Some(Since))>>, 0>> }}

MRFailureInputs ==
    {[BaseMR EXCEPT !.detail_out = e] : e \in ApiErrors}
    \cup {[BaseMR EXCEPT !.notes_out = "Timeout"],
          [BaseMR EXCEPT !.has_iid = FALSE],
          [BaseMR EXCEPT !.has_id = FALSE],
          [BaseMR EXCEPT !.created_at = MissingKey],
          [BaseMR EXCEPT !.created_at = Null],
          [BaseMR EXCEPT !.merged_at = BadString],
          [BaseMR EXCEPT !.notes = <<Note(TRUE, "other", None, Null)>>]}

\* The entities the server may describe to collect_for_project.
CollectInputs(v) ==
    IF v = "devflow"
    THEN MRWindowInputs \cup MRValueInputs \cup MRFailureInputs
    ELSE PipelineWindowInputs \cup PipelineValueInputs \cup PipelineFailureInputs

\* A smaller choice for whole runs: a fact, a skip, and failures.
RunInputs(v) ==
    IF v = "devflow"
    THEN {BaseMR,
          [BaseMR EXCEPT !.merged_at = Some(Since - 1)],
          [BaseMR EXCEPT !.detail_out = "HTTPError"],
          [BaseMR EXCEPT !.created_at = Null]}
    ELSE IF v = "ci"
    THEN {BasePipeline,
          [BasePipeline EXCEPT !.created_at = Some(Since - 1)],
          [BasePipeline EXCEPT !.detail_out = "HTTPError"],
          [BasePipeline EXCEPT !.created_at = WrongType]}
    ELSE {BasePipeline,
          [BasePipeline EXCEPT !.created_at = Some(Since - 1)],
          [BasePipeline EXCEPT !.detail_out = "HTTPError"]}

(***************************************************************************)
(* main() and collect_for_project as a state machine                       *)
(***************************************************************************)

\* requests' exception hierarchy: these are RequestException or subclasses.
IsRequestException(e) ==
    e \in {"RequestException", "HTTPError", "Timeout", "ConnectionError"}

\* The handler around one entity: `except (KeyError, ValueError,
\* requests.exceptions.RequestException)` in devflow, `except Exception` in
\* ci and in old's process_single_pipeline.
CaughtPerEntity(v, e) ==
    IF v = "devflow"
    THEN e \in {"KeyError", "ValueError"} \/ IsRequestException(e)
    ELSE TRUE

\* Sequences of distinct project paths, as discovery may return them.
DistinctSeqs(S, n) ==
    {q \in UNION {[1..k -> S] : k \in 0..n} :
        \A i, j \in DOMAIN q : i # j => q[i] # q[j]}

\* The project paths the server may report, numbered in the order of their
\* spelling.
Paths == 1..(MaxProjects + 1)

Project(path, branch) == [path |-> path, default_branch |-> branch]

RECURSIVE AsProjects(_)
AsProjects(paths) ==
    IF paths = <<>> THEN <<>>
    ELSE <<Project(paths[1], Some("main"))>> \o AsProjects(Tail(paths))

NoStep == [input |-> <<>>, outcome |-> "none", exc |-> "none", t |-> None,
           dur_sec |-> None, queue_mean |-> None, ret |-> None]
NoResult == [facts |-> <<>>, rollup |-> <<>>, stages |-> {}, path |-> 0]
NoSummary == [written |-> FALSE, rows |-> <<>>]

InitRun ==
    /\ main_pc \in {"start", "exit2"}
    /\ projects = <<>>
    /\ begun = <<>>
    /\ todo = 0
    /\ acc = InitAcc
    /\ last = NoStep
    /\ nfact = 0
    /\ result = NoResult
    /\ rollups = <<>>
    /\ written = {}
    /\ summary = NoSummary
    /\ abort = "none"
    /\ list_failed = {}
    /\ pool = <<>>

\* The collector of one project in old's main pool: where it is
\* ("submitted", "pool" once its pipelines are listed and its inner pool is
\* open, "returned", "raised", "consumed" once main has taken its result),
\* the pipelines it has listed, those of them it has not submitted yet, the
\* processors submitted and not yet finished, the results of the finished
\* ones the collector has not taken yet, its accumulators, and what it
\* returned.
NewCollector ==
    [pc |-> "submitted", listed |-> 0, new |-> 0, todo |-> 0, done |-> EmptyBag,
     acc |-> InitAcc, nfact |-> 0, ret |-> NoResult]

\* The pipelines the collectors cs have listed, all together.
RECURSIVE ListedPipelines(_)
ListedPipelines(cs) ==
    IF cs = <<>> THEN 0 ELSE cs[1].listed + ListedPipelines(Tail(cs))

\* The main pool once `ex.submit(collect_for_project, ...)` was called for
\* each of n projects (old, lines 446-449) and no collector has begun; the
\* sequential programs have no pool.
Submitted(v, n) == IF v = "old" THEN [i \in 1..n |-> NewCollector] ELSE <<>>

\* Project discovery (list_group_projects / list_projects_membership).  It
\* is not inside any try: an exception ends main.  In old, main then opens
\* its pool and goes through the projects to submit their collectors; with
\* no project it is at once in as_completed.
Discover ==
    /\ main_pc = "start"
    /\ \/ \E paths \in DistinctSeqs(Paths, MaxProjects) :
            /\ projects' = AsProjects(paths)
            /\ pool' = <<>>
            /\ main_pc' = IF variant # "old" THEN "projects"
                          ELSE IF paths = <<>> THEN "as_completed" ELSE "submit"
            /\ abort' = abort
       \/ \E e \in ApiErrors :
            /\ projects' = projects
            /\ pool' = pool
            /\ main_pc' = "aborted"
            /\ abort' = "discovery"
    /\ UNCHANGED <<variant, py_sum, concVars, fnVars, getVars, pageVars, begun, todo, acc, last, nfact,
                   result, rollups, written, summary, list_failed>>

\* old: main submits the collector of the next project (lines 447-449).  A
\* worker of the pool may run it from now on, while main submits the others;
\* after the last project main waits in as_completed.
SubmitCollector ==
    /\ variant = "old"
    /\ main_pc = "submit"
    /\ pool' = Append(pool, NewCollector)
    /\ main_pc' = IF Len(pool) + 1 = Len(projects) THEN "as_completed" ELSE "submit"
    /\ UNCHANGED <<variant, py_sum, concVars, fnVars, getVars, pageVars, projects, begun,
                   todo, acc, last, nfact, result, rollups, written, summary, abort,
                   list_failed>>

\* old: main's pool is open: the collectors submitted so far run, while main
\* submits the others, waits in as_completed, or handles a result it has
\* taken.
PoolOpen == variant = "old" /\ main_pc \in {"submit", "as_completed", "write", "append"}

\* The project the loop `for p in projects` of main takes up next (devflow,
\* ci).
NextProjects ==
    LET rest == (1..Len(projects)) \ {begun[i] : i \in 1..Len(begun)} IN
    {i \in rest : i = Len(begun) + 1}

\* devflow, ci: collect_for_project up to its loop: the listing of the
\* project's entities (list_pipelines / list_merge_requests) and the empty
\* accumulators.  A listing that raises leaves collect_for_project, and
\* main, which calls it inside no try.
StartProject ==
    /\ variant # "old"
    /\ main_pc = "projects"
    /\ \E i \in NextProjects :
        /\ begun' = Append(begun, i)
        /\ \/ \E n \in 0..MaxEntities :
                /\ todo' = n
                /\ acc' = InitAcc
                /\ nfact' = 0
                /\ main_pc' = "entities"
                /\ UNCHANGED <<abort, list_failed>>
           \/ \E e \in ApiErrors :
                /\ list_failed' = list_failed \cup {projects[i].path}
                /\ main_pc' = "aborted"
                /\ abort' = "listing"
                /\ UNCHANGED <<todo, acc, nfact>>
    /\ UNCHANGED <<variant, py_sum, concVars, fnVars, getVars, pageVars, projects, last, result,
                   rollups, written, summary, pool>>

CurrentProject == projects[begun[Len(begun)]]

StepOf(v, project, e) ==
    IF v = "devflow" THEN mr_steps(project, e, Since)
    ELSE pipeline_steps(v, project, e, Since)

\* devflow, ci: one entity of the current project, drawn from `inputs`: one
\* iteration of the loop of collect_for_project.
ProcessEntityFrom(inputs) ==
    /\ variant # "old"
    /\ main_pc = "entities"
    /\ todo > 0
    /\ \E e \in inputs :
        LET step == StepOf(variant, CurrentProject, e) IN
        /\ last' = [input |-> e, outcome |-> step.outcome, exc |-> step.exc,
                     t |-> step.t, dur_sec |-> step.dur_sec,
                     queue_mean |-> step.queue_mean, ret |-> process_result(step)]
        /\ IF step.outcome = "failed" /\ ~CaughtPerEntity(variant, step.exc)
           THEN \* the exception leaves collect_for_project, and main
                /\ main_pc' = "aborted"
                /\ abort' = "entity"
                /\ acc' = acc
                /\ UNCHANGED <<todo, nfact>>
           ELSE /\ acc' = Fold(variant, acc, step)
                /\ todo' = todo - 1
                /\ nfact' = IF step.outcome = "fact" THEN nfact + 1 ELSE nfact
                /\ UNCHANGED <<main_pc, abort>>
    /\ UNCHANGED <<variant, py_sum, concVars, fnVars, getVars, pageVars, projects, begun, result,
                   rollups, written, summary, list_failed, pool>>

ProcessEntity == ProcessEntityFrom(RunInputs(variant))
CollectEntity == ProcessEntityFrom(CollectInputs(variant))

\* A main that reports every returned rollup, with facts or without.
FinishProject_AlwaysAppends ==
    /\ variant # "old"
    /\ main_pc = "entities"
    /\ todo = 0
    /\ LET rollup == Rollup(variant, CurrentProject, acc) IN
        /\ result' = [facts |-> acc.facts, rollup |-> rollup,
                      stages |-> stage_rows(acc), path |-> CurrentProject.path]
        /\ rollups' = Append(rollups, rollup)
        /\ written' = IF acc.facts # <<>> THEN written \cup {CurrentProject.path}
                      ELSE written
    /\ main_pc' = "projects"
    /\ UNCHANGED <<variant, py_sum, concVars, fnVars, getVars, pageVars, projects, begun, todo, acc, last,
                   nfact, summary, abort, list_failed, pool>>

\* devflow, ci: the end of collect_for_project (rollup, stage rows, return)
\* and what main, its caller, does with the result: `if facts:` write the
\* project's CSV and append the rollup to the portfolio.
FinishProject ==
    /\ variant # "old"
    /\ main_pc = "entities"
    /\ todo = 0
    /\ LET rollup == Rollup(variant, CurrentProject, acc) IN
        /\ result' = [facts |-> acc.facts, rollup |-> rollup,
                      stages |-> stage_rows(acc), path |-> CurrentProject.path]
        /\ IF acc.facts # <<>>
           THEN /\ written' = written \cup {CurrentProject.path}
                /\ rollups' = Append(rollups, rollup)
           ELSE UNCHANGED <<written, rollups>>
    /\ main_pc' = "projects"
    /\ UNCHANGED <<variant, py_sum, concVars, fnVars, getVars, pageVars, projects, begun, todo, acc, last,
                   nfact, summary, abort, list_failed, pool>>

\* The sort key `project_path.lower()`.  Paths are numbered in the order of
\* their spelling; path 1 stands for a path that begins with an upper-case
\* letter, which comes first as it is spelled and last once lower-cased.
path_lower(path) == IF path = 1 THEN MaxProjects + 2 ELSE path

\* sorted(rollups, key=lambda x: project_path.lower()) of old's
\* write_summary_csv.
RECURSIVE InsertRollup(_, _)
InsertRollup(x, xs) ==
    IF xs = <<>> THEN <<x>>
    ELSE IF path_lower(x.project_path) < path_lower(xs[1].project_path) THEN <<x>> \o xs
    ELSE <<xs[1]>> \o InsertRollup(x, Tail(xs))
RECURSIVE sort_rollups(_)
sort_rollups(xs) ==
    IF xs = <<>> THEN <<>>
    ELSE InsertRollup(xs[Len(xs)], sort_rollups(SubSeq(xs, 1, Len(xs) - 1)))

\* One row of devflow's append_summary_csv (lines 709-719).
devflow_summary_row(x) ==
    [project_path      |-> x.project_path,
     mrs_merged        |-> x.mrs_merged,
     mttm_mean_h       |-> OrBlank(x.mttm_mean_h),
     mttm_p50_h        |-> OrBlank(x.mttm_p50_h),
     mttm_p90_h        |-> OrBlank(x.mttm_p90_h),
     ttfr_mean_h       |-> OrBlank(x.ttfr_mean_h),
     ttfr_p50_h        |-> OrBlank(x.ttfr_p50_h),
     ttfr_p90_h        |-> OrBlank(x.ttfr_p90_h),
     review_rounds_avg |-> OrBlank(x.review_rounds_avg),
     size_counts       |-> x.size_counts]

RECURSIVE devflow_summary_rows(_)
devflow_summary_rows(xs) ==
    IF xs = <<>> THEN <<>>
    ELSE <<devflow_summary_row(xs[1])>> \o devflow_summary_rows(Tail(xs))

\* The rows of _summary.csv: append_summary_csv (devflow), write_summary_csv
\* (ci: in list order; old: sorted by project path).
summary_rows(v, xs) ==
    IF v = "devflow" THEN devflow_summary_rows(xs)
    ELSE IF v = "old" THEN sort_rollups(xs)
    ELSE xs

\* old: a worker of main's pool starts the collector of project i, which
\* lists the project's pipelines and opens its inner pool (lines 290-301);
\* nothing is submitted yet.  A listing that raises leaves
\* collect_for_project; the exception is kept in the project's future.
\* The pools have their default widths 8 and 4, above the bounds here.
\* The projects of the run list at most `most` pipelines in all.
ListPipelinesUpTo(most) ==
    /\ PoolOpen
    /\ \E i \in DOMAIN pool :
        /\ pool[i].pc = "submitted"
        /\ \/ \E n \in 0..(most - ListedPipelines(pool)) :
                /\ pool' = [pool EXCEPT ![i].pc = "pool", ![i].listed = n, ![i].new = n]
                /\ list_failed' = list_failed
           \/ \E e \in ApiErrors :
                /\ pool' = [pool EXCEPT ![i].pc = "raised"]
                /\ list_failed' = list_failed \cup {projects[i].path}
    /\ UNCHANGED <<variant, py_sum, concVars, fnVars, getVars, pageVars, main_pc, projects, begun,
                   todo, acc, last, nfact, result, rollups, written, summary, abort>>

ListPipelines == ListPipelinesUpTo(MaxPipelines)
CollectListPipelines == ListPipelinesUpTo(MaxEntities)

\* old: the collector of project i submits the processor of its next
\* pipeline (one `ex.submit(process_single_pipeline, ...)` of lines
\* 302-303).  A worker of the inner pool may run it from now on, while the
\* collector submits the others.
SubmitSinglePipeline ==
    /\ PoolOpen
    /\ \E i \in DOMAIN pool :
        /\ pool[i].pc = "pool"
        /\ pool[i].new > 0
        /\ pool' = [pool EXCEPT ![i].new = @ - 1, ![i].todo = @ + 1]
    /\ UNCHANGED <<variant, py_sum, concVars, fnVars, getVars, pageVars, main_pc, projects, begun,
                   todo, acc, last, nfact, result, rollups, written, summary, abort,
                   list_failed>>

\* process_single_pipeline (old, lines 208-280): the loop body of the
\* sequential script inside `try ... except Exception: return None`.
process_single_pipeline(project, p, since) ==
    process_result(pipeline_steps("old", project, p, since))

\* old: a worker of the inner pool of project i runs process_single_pipeline
\* on a submitted pipeline, drawn from `inputs`; what it returns waits in
\* its future.
ProcessSinglePipelineFrom(inputs) ==
    /\ PoolOpen
    /\ \E i \in DOMAIN pool :
        /\ pool[i].pc = "pool"
        /\ pool[i].todo > 0
        /\ \E e \in inputs :
            LET step == pipeline_steps("old", projects[i], e, Since)
                res  == process_single_pipeline(projects[i], e, Since)
            IN
            /\ last' = [input |-> e, outcome |-> step.outcome, exc |-> step.exc,
                         t |-> step.t, dur_sec |-> step.dur_sec,
                         queue_mean |-> step.queue_mean, ret |-> res]
            /\ pool' = [pool EXCEPT ![i].todo = @ - 1,
                                     ![i].done = @ (+) SetToBag({res})]
    /\ UNCHANGED <<variant, py_sum, concVars, fnVars, getVars, pageVars, main_pc, projects, begun,
                   todo, acc, nfact, result, rollups, written, summary, abort,
                   list_failed>>

ProcessSinglePipeline == ProcessSinglePipelineFrom(RunInputs("old"))
CollectSinglePipeline == ProcessSinglePipelineFrom(CollectInputs("old"))

\* old: every pipeline of project i is submitted; its collector takes a
\* completed future from as_completed(futures), whichever, and handles its
\* result (lines 304-325).  The lists it appends to are locals of this
\* call of collect_for_project, which no other thread reads or writes.
TakeResult ==
    /\ PoolOpen
    /\ \E i \in DOMAIN pool :
        /\ pool[i].pc = "pool"
        /\ pool[i].new = 0
        /\ \E res \in BagToSet(pool[i].done) :
            pool' = [pool EXCEPT ![i].done  = @ (-) SetToBag({res}),
                                 ![i].acc   = old_fold(@, res),
                                 ![i].nfact = IF res # None THEN @ + 1 ELSE @]
    /\ UNCHANGED <<variant, py_sum, concVars, fnVars, getVars, pageVars, main_pc, projects, begun,
                   todo, acc, last, nfact, result, rollups, written, summary, abort,
                   list_failed>>

\* old: all futures of project i are handled; its collector computes the
\* rollup and the stage rows and returns (lines 327-353).
CollectorReturns ==
    /\ PoolOpen
    /\ \E i \in DOMAIN pool :
        /\ pool[i].pc = "pool"
        /\ pool[i].new = 0
        /\ pool[i].todo = 0
        /\ pool[i].done = EmptyBag
        /\ pool' = [pool EXCEPT
                       ![i].pc  = "returned",
                       ![i].ret = [facts  |-> pool[i].acc.facts,
                                   rollup |-> rollup_ci(projects[i], pool[i].acc),
                                   stages |-> stage_rows(pool[i].acc),
                                   path   |-> projects[i].path]]
    /\ UNCHANGED <<variant, py_sum, concVars, fnVars, getVars, pageVars, main_pc, projects, begun,
                   todo, acc, last, nfact, result, rollups, written, summary, abort,
                   list_failed>>

\* old: main takes a finished collector from as_completed(futures),
\* whichever (lines 451-453).  fut.result() raises what the collector
\* raised, into `except Exception`; a result without facts is reported and
\* left; with a result that has facts main goes on to write it.  Nothing of
\* the collector is left but what main has taken and the number of
\* pipelines it had listed.
TakeProject ==
    /\ variant = "old"
    /\ main_pc = "as_completed"
    /\ \E i \in DOMAIN pool :
        /\ pool[i].pc \in {"returned", "raised"}
        /\ pool' = [pool EXCEPT ![i] = [NewCollector EXCEPT !.pc = "consumed",
                                                           !.listed = pool[i].listed]]
        /\ IF pool[i].pc = "raised"
           THEN UNCHANGED <<result, main_pc>>
           ELSE /\ result' = pool[i].ret
                /\ main_pc' = IF pool[i].ret.facts # <<>> THEN "write" ELSE "as_completed"
    /\ UNCHANGED <<variant, py_sum, concVars, fnVars, getVars, pageVars, projects, begun,
                   todo, acc, last, nfact, rollups, written, summary, abort, list_failed>>

\* old: main writes the facts of the result it has taken to the project's
\* CSV, and the stage rows, if any, to the project's stage CSV (lines
\* 454-461).  The collectors of the other projects run meanwhile.
WriteProjectCsv ==
    /\ variant = "old"
    /\ main_pc = "write"
    /\ written' = written \cup {result.path}
    /\ main_pc' = "append"
    /\ UNCHANGED <<variant, py_sum, concVars, fnVars, getVars, pageVars, projects, begun,
                   todo, acc, last, nfact, result, rollups, summary, abort, list_failed,
                   pool>>

\* old: main appends the rollup of the result it has written to the
\* portfolio (line 462) and goes back to as_completed.
AppendRollup ==
    /\ variant = "old"
    /\ main_pc = "append"
    /\ rollups' = Append(rollups, result.rollup)
    /\ main_pc' = "as_completed"
    /\ UNCHANGED <<variant, py_sum, concVars, fnVars, getVars, pageVars, projects, begun,
                   todo, acc, last, nfact, result, written, summary, abort, list_failed,
                   pool>>

\* Every project was collected: the loop of main (devflow, ci) or its
\* as_completed (old) is over.
AllCollected ==
    IF variant = "old"
    THEN main_pc = "as_completed" /\ \A i \in DOMAIN pool : pool[i].pc = "consumed"
    ELSE main_pc = "projects" /\ NextProjects = {}

\* The end of main: the summary is written when the portfolio is not empty.
WriteSummary ==
    /\ AllCollected
    /\ summary' = IF rollups # <<>>
                  THEN [written |-> TRUE, rows |-> summary_rows(variant, rollups)]
                  ELSE NoSummary
    /\ main_pc' = "done"
    /\ UNCHANGED <<variant, py_sum, concVars, fnVars, getVars, pageVars, projects, begun, todo, acc, last,
                   nfact, result, rollups, written, abort, list_failed, pool>>

\* A whole run.  The values of its entities are whole seconds and hours, and
\* no mean of so few of them is a decimal tie.
InitSpecRun ==
    variant \in Variants /\ InitSumIdle /\ InitGetIdle /\ InitPageIdle /\ InitRun /\ InitFnIdle /\ InitConcIdle
NextRun ==
    \/ Discover \/ SubmitCollector \/ StartProject \/ ProcessEntity \/ FinishProject
    \/ ListPipelines \/ SubmitSinglePipeline \/ ProcessSinglePipeline \/ TakeResult
    \/ CollectorReturns \/ TakeProject \/ WriteProjectCsv \/ AppendRollup \/ WriteSummary
SpecRun == InitSpecRun /\ [][NextRun]_vars

\* collect_for_project on one discovered project, with the finer inputs.
InitCollect ==
    /\ main_pc = (IF variant = "old" THEN "as_completed" ELSE "projects")
    /\ pool = Submitted(variant, 1)
    /\ \E b \in {None, Some("main")} : projects = <<Project(1, b)>>
    /\ begun = <<>>
    /\ todo = 0
    /\ acc = InitAcc
    /\ last = NoStep
    /\ nfact = 0
    /\ result = NoResult
    /\ rollups = <<>>
    /\ written = {}
    /\ summary = NoSummary
    /\ abort = "none"
    /\ list_failed = {}

InitSpecCollect ==
    variant \in Variants /\ py_sum \in SumImpls /\ InitGetIdle /\ InitPageIdle /\ InitCollect /\ InitFnIdle /\ InitConcIdle
NextCollect ==
    \/ StartProject \/ CollectEntity \/ FinishProject
    \/ CollectListPipelines \/ SubmitSinglePipeline \/ CollectSinglePipeline \/ TakeResult
    \/ CollectorReturns \/ TakeProject \/ WriteProjectCsv \/ AppendRollup \/ WriteSummary
SpecCollect == InitSpecCollect /\ [][NextCollect]_vars

(***************************************************************************)
(* Properties of main() and collect_for_project                            *)
(***************************************************************************)

\* The projects whose collection was begun: taken up by the loop of main
\* (devflow, ci), or their collector started by a worker of the pool (old).
BegunPaths ==
    {projects[begun[i]].path : i \in 1..Len(begun)}
    \cup {projects[i].path : i \in {k \in DOMAIN pool : pool[k].pc # "submitted"}}
RollupPaths == {rollups[i].project_path : i \in 1..Len(rollups)}

\* C1: a project whose entity listing fails contributes no fact file and no
\* rollup, the run is not aborted, and at the end of main every other
\* discovered project has been collected.
C1_ProjectIsolation ==
    list_failed # {} =>
        /\ main_pc # "aborted"
        /\ list_failed \cap written = {}
        /\ list_failed \cap RollupPaths = {}
        /\ main_pc = "done" =>
              \A i \in 1..Len(projects) : projects[i].path \in BegunPaths

\* C2: an entity whose processing fails (malformed response, missing or
\* null field, HTTP error, timeout) is caught at the per-entity boundary: it
\* ends nothing but itself, and the facts of the project are exactly those
\* of the entities that succeeded.
C2_EntityIsolation ==
    /\ last.outcome = "failed" => (main_pc # "aborted" /\ abort # "entity")
    /\ main_pc = "entities" => Len(acc.facts) = nfact
    /\ \A i \in DOMAIN pool : Len(pool[i].acc.facts) = pool[i].nfact

\* C3: a run whose configuration is present never ends anywhere but at the
\* end of main: no outcome of an API call aborts it.
C3_NoApiErrorEndsTheRun ==
    main_pc # "aborted"

\* The timestamp that decides the window, read off the entity as the server
\* described it: merged_at of a merge request; created_at of a pipeline
\* stub, or its updated_at when created_at is absent or unparseable.
DefiningStamp(v, e) ==
    IF v = "devflow"
    THEN (IF IsStamp(e.merged_at) THEN e.merged_at ELSE None)
    ELSE IF IsStamp(e.created_at) THEN e.created_at
    ELSE IF IsStamp(e.updated_at) THEN e.updated_at
    ELSE None

\* C8: an entity yields a fact, and is counted, only if its defining
\* timestamp lies in the closed interval [now - lookback, now].
C8_ClosedWindow ==
    last.outcome = "fact" =>
        LET t == DefiningStamp(variant, last.input) IN
        t # None /\ Now - LookbackTicks <= t[1] /\ t[1] <= Now

RollupTotal(v, x) == IF v = "devflow" THEN x.mrs_merged ELSE x.pipelines_total

\* C9: the total of every rollup collect_for_project returns equals the
\* number of fact records returned with it, which is the number of entities
\* of that project that produced a fact, and the rollup and every fact
\* returned with it carry the path of the project collected, whatever the
\* other projects of the run did before or do meanwhile.
C9_RollupCountEqualsFacts ==
    /\ (main_pc = "projects" /\ result.path # 0) =>
          /\ result.path = CurrentProject.path
          /\ RollupTotal(variant, result.rollup) = Len(result.facts)
          /\ Len(result.facts) = nfact
          /\ result.rollup.project_path = CurrentProject.path
          /\ \A i \in 1..Len(result.facts) :
                result.facts[i].project_path = CurrentProject.path
    /\ \A i \in DOMAIN pool :
          pool[i].pc = "returned" =>
             /\ RollupTotal(variant, pool[i].ret.rollup) = Len(pool[i].ret.facts)
             /\ Len(pool[i].ret.facts) = pool[i].nfact
             /\ pool[i].ret.rollup.project_path = projects[i].path
             /\ \A k \in 1..Len(pool[i].ret.facts) :
                   pool[i].ret.facts[k].project_path = projects[i].path
    /\ (variant = "old" /\ result.path # 0) =>
          /\ RollupTotal(variant, result.rollup) = Len(result.facts)
          /\ result.rollup.project_path = result.path
          /\ \A i \in 1..Len(result.facts) : result.facts[i].project_path = result.path

\* C9 case: in the concurrent script the collectors of two projects have
\* both returned and neither was taken by main yet: each returns one fact,
\* of its own path, and a rollup of total 1.
C9_Witness ==
    /\ variant = "old"
    /\ \E i \in DOMAIN pool : \E j \in DOMAIN pool :
          /\ i # j
          /\ pool[i].pc = "returned" /\ pool[j].pc = "returned"
          /\ projects[i].path # projects[j].path
          /\ Len(pool[i].ret.facts) = 1 /\ Len(pool[j].ret.facts) = 1
          /\ pool[i].ret.facts[1].project_path = projects[i].path
          /\ pool[j].ret.facts[1].project_path = projects[j].path
          /\ RollupTotal(variant, pool[i].ret.rollup) = 1

\* The statistics of the CI rollup x are blank exactly when the list of the
\* accumulators a they are computed from is empty.
BlankIffEmpty(x, a) ==
    /\ x.success_rate.blank <=> a.all_statuses = <<>>
    /\ x.duration_mean_sec.blank <=> a.all_durations = <<>>
    /\ x.duration_p50_sec.blank <=> a.all_durations = <<>>
    /\ x.duration_p90_sec.blank <=> a.all_durations = <<>>
    /\ x.queue_mean_sec.blank <=> a.all_queues = <<>>
    /\ x.queue_p50_sec.blank <=> a.all_queues = <<>>
    /\ x.queue_p90_sec.blank <=> a.all_queues = <<>>
    /\ x.default_success_rate.blank <=> a.default_statuses = <<>>
    /\ x.default_duration_p50_sec.blank <=> a.default_durations = <<>>
    /\ x.default_duration_p90_sec.blank <=> a.default_durations = <<>>

\* C10: a numeric field of a fact row, of a rollup or of a summary row is
\* blank ("no data") exactly when nothing contributed to it; a value of 0
\* is written as 0.
C10_ZeroIsNotNoData ==
    /\ (variant = "ci" /\ last.outcome = "fact" /\ main_pc = "entities") =>
          LET f == acc.facts[Len(acc.facts)] IN
          /\ f.duration_sec.blank <=> last.dur_sec = None
          /\ f.queue_mean_sec.blank <=> last.queue_mean = None
    /\ (variant = "old" /\ last.outcome = "fact") =>
          LET f == last.ret[1].fact IN
          /\ f.duration_sec.blank <=> last.dur_sec = None
          /\ f.queue_mean_sec.blank <=> last.queue_mean = None
    /\ (variant = "ci" /\ main_pc = "projects" /\ result.path # 0) =>
          BlankIffEmpty(result.rollup, acc)
    /\ \A i \in DOMAIN pool :
          pool[i].pc = "returned" => BlankIffEmpty(pool[i].ret.rollup, pool[i].acc)
    /\ (variant = "devflow" /\ summary.written) =>
          \A i \in 1..Len(summary.rows) :
             LET row == summary.rows[i]
                 x   == rollups[i]
             IN  /\ row.mttm_mean_h.blank <=> x.mttm_mean_h = None
                 /\ row.mttm_p50_h.blank <=> x.mttm_p50_h = None
                 /\ row.mttm_p90_h.blank <=> x.mttm_p90_h = None
                 /\ row.ttfr_mean_h.blank <=> x.ttfr_mean_h = None
                 /\ row.ttfr_p50_h.blank <=> x.ttfr_p50_h = None
                 /\ row.ttfr_p90_h.blank <=> x.ttfr_p90_h = None
                 /\ row.review_rounds_avg.blank <=> x.review_rounds_avg = None

(***************************************************************************)
(* SpecFn: one call of a helper function on arguments drawn from bounded   *)
(* sets                                                                    *)
(***************************************************************************)

\* Bounds of the arguments.
MaxNotes == 3
MaxCommits == 2
MaxValues == 4

\* The ticks a note or commit may carry: one before the review interval
\* [1, 2] of RoundsInputs, its two ends, and one after it.
Ticks == 0..3

SeqsUpTo(S, n) == UNION {[1..k -> S] : k \in 0..n}

\* get_merge_request_notes asks for {"sort": "asc"}: the notes arrive in
\* ascending order of created_at.
Ascending(ns) ==
    \A i \in 1..(Len(ns) - 1) : ns[i].created_at[1] <= ns[i + 1].created_at[1]
NoteLists(S) == {ns \in SeqsUpTo(S, MaxNotes) : Ascending(ns)}

\* The sorted event stream compute_review_rounds works on (lines 491-504).
round_events(mr_author, notes, commits, start_time, merged_at) ==
    LET rv == review_events(mr_author, notes, start_time, merged_at) IN
    IF rv.exc # "none" THEN rv
    ELSE LET cm == commit_events(commits, start_time, merged_at) IN
         IF cm.exc # "none" THEN cm
         ELSE Ok(sort_events(rv.val \o cm.val))

\* Arguments of find_ready_time: system and user notes of every body.
ReadyTimeNotes ==
    {Note(sys, b, Some("bob"), Some(t)) :
        sys \in BOOLEAN, b \in {"ready", "draft", "other"}, t \in Ticks}
ReadyTimeCall(c, ns) == [fn |-> "find_ready_time", created_at |-> c, notes |-> ns]

\* Arguments of compute_ttfr: notes by nobody, by the author, by a reviewer.
TtfrNotes ==
    {Note(sys, "other", a, Some(t)) :
        sys \in BOOLEAN, a \in {None, Some("alice"), Some("bob")}, t \in Ticks}
TtfrCall(c, ns) ==
    [fn |-> "compute_ttfr", created_at |-> c, mr_author |-> "alice", notes |-> ns]

\* Arguments of compute_review_rounds: the interval is [1, 2], so that
\* tick 0 lies before it and tick 3 after it; the commits come in any order.
RoundsNotes ==
    {Note(sys, "other", Some(a), Some(t)) :
        sys \in BOOLEAN, a \in {"alice", "bob"}, t \in Ticks}
CommitLists == SeqsUpTo({Commit(Some(t)) : t \in Ticks}, MaxCommits)
RoundsCall(ns, cs) ==
    [fn |-> "compute_review_rounds", mr_author |-> "alice", notes |-> ns,
     commits |-> cs, start_time |-> 1, merged_at |-> 2]

\* One call of one of the three heuristics, before it is made.
InitHeuristics ==
    /\ fn_pc = "call"
    /\ fn_out = None
    /\ \/ \E c \in {0, 1} : \E ns \in NoteLists(ReadyTimeNotes) :
             fn_in = ReadyTimeCall(c, ns)
       \/ \E c \in {1, 2} : \E ns \in NoteLists(TtfrNotes) :
             fn_in = TtfrCall(c, ns)
       \/ \E ns \in NoteLists(RoundsNotes) : \E cs \in CommitLists :
             fn_in = RoundsCall(ns, cs)

CallFindReadyTime ==
    /\ fn_pc = "call"
    /\ fn_in.fn = "find_ready_time"
    /\ fn_out' = find_ready_time(fn_in.created_at, fn_in.notes)
    /\ fn_pc' = "done"
    /\ UNCHANGED <<variant, py_sum, concVars, fn_in, getVars, pageVars, runVars>>

CallComputeTtfr ==
    /\ fn_pc = "call"
    /\ fn_in.fn = "compute_ttfr"
    /\ fn_out' = compute_ttfr(fn_in.created_at, fn_in.mr_author, fn_in.notes)
    /\ fn_pc' = "done"
    /\ UNCHANGED <<variant, py_sum, concVars, fn_in, getVars, pageVars, runVars>>

CallComputeReviewRounds ==
    /\ fn_pc = "call"
    /\ fn_in.fn = "compute_review_rounds"
    /\ fn_out' = [events |-> round_events(fn_in.mr_author, fn_in.notes, fn_in.commits,
                                          fn_in.start_time, fn_in.merged_at).val,
                  rounds |-> compute_review_rounds(fn_in.mr_author, fn_in.notes,
                                                   fn_in.commits, fn_in.start_time,
                                                   fn_in.merged_at).val]
    /\ fn_pc' = "done"
    /\ UNCHANGED <<variant, py_sum, concVars, fn_in, getVars, pageVars, runVars>>

InitSpecHeuristics ==
    /\ variant = "devflow"
    /\ InitSumIdle
    /\ InitGetIdle /\ InitPageIdle /\ InitRunIdle
    /\ InitHeuristics
    /\ InitConcIdle
NextHeuristics == CallFindReadyTime \/ CallComputeTtfr \/ CallComputeReviewRounds
SpecHeuristics == InitSpecHeuristics /\ [][NextHeuristics]_vars

(***************************************************************************)
(* Properties of the DevFlow heuristics                                    *)
(***************************************************************************)

RoundsCalled == fn_pc = "done" /\ fn_in.fn = "compute_review_rounds"

\* The commits of a stream whose immediately preceding event is a review.
AnsweringCommits(ev) ==
    {i \in 2..Len(ev) : ev[i].kind = "commit" /\ ev[i - 1].kind = "review"}

\* C11: the round count computed over the time-sorted event stream equals
\* the number of commits whose immediately preceding event is a review, and
\* so does the count over every prefix of the stream: a review after a
\* review, a commit after a commit and a trailing review add nothing, a
\* commit right after a review adds exactly 1.
C11_RoundsCountAnsweredReviews ==
    RoundsCalled =>
        LET ev == fn_out.events IN
        /\ fn_out.rounds = Cardinality(AnsweringCommits(ev))
        /\ \A k \in 0..Len(ev) :
              count_rounds(SubSeq(ev, 1, k), 0, FALSE)
                  = Cardinality(AnsweringCommits(SubSeq(ev, 1, k)))

\* C11 witness: the stream [review, commit, review, review, commit] gave 2.
C11_Witness ==
    /\ RoundsCalled
    /\ [i \in 1..Len(fn_out.events) |-> fn_out.events[i].kind]
          = <<"review", "commit", "review", "review", "commit">>
    /\ fn_out.rounds = 2

\* The events of one kind at tick t.
EventsAt(ev, kind, t) == {i \in 1..Len(ev) : ev[i].kind = kind /\ ev[i].t = t}

\* C12: the event stream holds a review event for exactly each note that is
\* not a system note, has an author other than the MR author and lies in
\* [start_time, merged_at], and a commit event for exactly each commit in
\* [start_time, merged_at], both bounds included; it is in time order; and
\* the round count is the one of the qualifying notes and commits alone.
C12_EventSelection ==
    RoundsCalled =>
        LET ev == fn_out.events
            ns == fn_in.notes
            cs == fn_in.commits
            Inside(x) == /\ fn_in.start_time <= x.created_at[1]
                         /\ x.created_at[1] <= fn_in.merged_at
            Qualifies(n) == /\ ~n.system
                            /\ n.author # None
                            /\ n.author[1] # fn_in.mr_author
                            /\ Inside(n)
        IN  /\ \A t \in Ticks :
                 /\ Cardinality(EventsAt(ev, "review", t))
                       = Cardinality({j \in 1..Len(ns) :
                                         Qualifies(ns[j]) /\ ns[j].created_at[1] = t})
                 /\ Cardinality(EventsAt(ev, "commit", t))
                       = Cardinality({j \in 1..Len(cs) :
                                         Inside(cs[j]) /\ cs[j].created_at[1] = t})
            /\ \A i \in 1..Len(ev) : ev[i].kind \in {"review", "commit"} /\ ev[i].t \in Ticks
            /\ \A i \in 1..(Len(ev) - 1) : ev[i].t <= ev[i + 1].t
            /\ fn_out.rounds
                  = compute_review_rounds(fn_in.mr_author, SelectSeq(ns, Qualifies),
                                          SelectSeq(cs, Inside), fn_in.start_time,
                                          fn_in.merged_at).val

\* C12 witness: a system note inside the interval, a reviewer's note before
\* it and a commit after it were left out; the reviewer's note at start_time
\* and the commit at merged_at made one round.
C12_Witness ==
    /\ RoundsCalled
    /\ \E i \in 1..Len(fn_in.notes) :
          fn_in.notes[i].system /\ fn_in.notes[i].created_at = Some(fn_in.start_time)
    /\ \E i \in 1..Len(fn_in.notes) :
          /\ ~fn_in.notes[i].system /\ fn_in.notes[i].author = Some("bob")
          /\ fn_in.notes[i].created_at = Some(fn_in.start_time - 1)
    /\ \E i \in 1..Len(fn_in.commits) :
          fn_in.commits[i].created_at = Some(fn_in.merged_at + 1)
    /\ fn_out.events = <<[t |-> fn_in.start_time, kind |-> "review"],
                         [t |-> fn_in.merged_at, kind |-> "commit"]>>
    /\ fn_out.rounds = 1

IsSystem(n) == n.system

\* C13: find_ready_time returns the creation time when no system note is a
\* 'marked as ready' note, and otherwise the timestamp of the last such
\* note, whatever 'marked as draft' notes stand before, between or after;
\* notes that are not system notes do not change the result.
C13_ReadyTimeIsLastReadyNote ==
    (fn_pc = "done" /\ fn_in.fn = "find_ready_time") =>
        LET ns    == fn_in.notes
            ready == {i \in 1..Len(ns) : ns[i].system /\ ns[i].body = "ready"}
            last_ready == CHOOSE i \in ready : \A j \in ready : j <= i
        IN  /\ fn_out.exc = "none"
            /\ fn_out.val = IF ready = {} THEN fn_in.created_at
                            ELSE ns[last_ready].created_at[1]
            /\ fn_out = find_ready_time(fn_in.created_at, SelectSeq(ns, IsSystem))

\* C13 witness: system notes ready@t1, draft@t2, ready@t3 with t1 < t2 < t3
\* resolved to t3.
C13_Witness ==
    /\ fn_pc = "done" /\ fn_in.fn = "find_ready_time"
    /\ Len(fn_in.notes) = 3
    /\ \A i \in 1..3 : fn_in.notes[i].system
    /\ [i \in 1..3 |-> fn_in.notes[i].body] = <<"ready", "draft", "ready">>
    /\ fn_in.notes[1].created_at[1] < fn_in.notes[2].created_at[1]
    /\ fn_in.notes[2].created_at[1] < fn_in.notes[3].created_at[1]
    /\ fn_out.val = fn_in.notes[3].created_at[1]
    /\ fn_out.val # fn_in.created_at

\* C14: compute_ttfr returns the hours from the creation of the MR to the
\* chronologically first note that is not a system note, is written by
\* somebody other than the MR author and is dated at or after the creation;
\* it returns None exactly when there is no such note; the value is never
\* negative; a note dated before the creation is passed over.
C14_TimeToFirstReview ==
    (fn_pc = "done" /\ fn_in.fn = "compute_ttfr") =>
        LET ns == fn_in.notes
            reviews == {i \in 1..Len(ns) :
                           /\ ~ns[i].system
                           /\ ns[i].author \notin {None, Some(fn_in.mr_author)}
                           /\ ns[i].created_at[1] >= fn_in.created_at}
            first == CHOOSE i \in reviews :
                        \A j \in reviews : ns[i].created_at[1] <= ns[j].created_at[1]
        IN  /\ fn_out.exc = "none"
            /\ fn_out.val = None <=> reviews = {}
            /\ reviews # {} =>
                  /\ fn_out.val = Some(10000 * (ns[first].created_at[1] - fn_in.created_at))
                  /\ fn_out.val[1] >= 0

\* C14 witness: a reviewer's note dated before the creation was passed over
\* and the reviewer's next note, one hour after the creation, was taken.
C14_Witness ==
    /\ fn_pc = "done" /\ fn_in.fn = "compute_ttfr"
    /\ Len(fn_in.notes) >= 2
    /\ ~fn_in.notes[1].system /\ fn_in.notes[1].author = Some("bob")
    /\ fn_in.notes[1].created_at[1] < fn_in.created_at
    /\ ~fn_in.notes[2].system /\ fn_in.notes[2].author = Some("bob")
    /\ fn_in.notes[2].created_at = Some(fn_in.created_at + 1)
    /\ fn_out.val = Some(10000)

(***************************************************************************)
(* SpecStats: size buckets, the size histogram of a project, quantiles     *)
(***************************************************************************)

\* Files-changed counts on both sides of every bucket bound.
FileCounts == {0, 2, 3, 4, 10, 11, 12, 25, 26, 50, 51, 60}

\* Metric values in ten-thousandths: multiples of 10 (3 decimals) and values
\* with a fourth decimal, none of them half-way between two multiples of 10.
MetricValues == {0, 4, 10, 16, 20}

\* One files-changed count per size bucket, for the merged MRs of a project.
BucketSamples == {2, 10, 12, 26, 60}

\* One call, before it is made: size_bucket of a count or of None;
\* collect_for_project on merged MRs told apart by their files-changed
\* counts; quantiles of a list at a q given in tenths.
\* The merge requests of the size histogram: merged in the window with a
\* given number of changed files, and one whose detail has created_at null.
SizedMRs ==
    {[BaseMR EXCEPT !.files = n] : n \in BucketSamples}
    \cup {[BaseMR EXCEPT !.created_at = Null]}

InitStats ==
    /\ fn_pc = "call"
    /\ fn_out = None
    /\ \/ \E f \in {None} \cup {Some(n) : n \in FileCounts} :
             fn_in = [fn |-> "size_bucket", files_changed |-> f]
       \/ \E ms \in SeqsUpTo(SizedMRs, MaxValues) :
             fn_in = [fn |-> "collect_for_project", mrs |-> ms]
       \/ \E vs \in SeqsUpTo(MetricValues, MaxValues) : \E q \in 0..10 :
             fn_in = [fn |-> "quantiles", values |-> vs, q10 |-> q]

\* The loop of collect_for_project over the entities es, from accumulators
\* a: the accumulators after the last entity, or the exception the handler
\* around one entity does not catch, which ends the loop and the function.
RECURSIVE collect_loop(_, _, _, _)
collect_loop(v, project, es, a) ==
    IF es = <<>> THEN Ok(a)
    ELSE LET step == StepOf(v, project, es[1]) IN
         IF step.outcome = "failed" /\ ~CaughtPerEntity(v, step.exc)
         THEN Raise(step.exc)
         ELSE collect_loop(v, project, Tail(es), Fold(v, a, step))

\* collect_for_project of devflow on the listed merge requests: the facts
\* and the rollup it returns, or the exception that leaves it.
collect_sizes(mrs) ==
    LET project == Project(1, Some("main"))
        a       == collect_loop("devflow", project, mrs, InitAcc)
    IN  IF a.exc # "none" THEN [exc |-> a.exc, facts |-> <<>>, rollup |-> None]
        ELSE [exc |-> "none", facts |-> a.val.facts,
              rollup |-> Some(rollup_devflow(project, a.val))]

CallSizeBucket ==
    /\ fn_pc = "call"
    /\ fn_in.fn = "size_bucket"
    /\ fn_out' = size_bucket(fn_in.files_changed)
    /\ fn_pc' = "done"
    /\ UNCHANGED <<variant, py_sum, concVars, fn_in, getVars, pageVars, runVars>>

CallCollectSizes ==
    /\ fn_pc = "call"
    /\ fn_in.fn = "collect_for_project"
    /\ fn_out' = collect_sizes(fn_in.mrs)
    /\ fn_pc' = "done"
    /\ UNCHANGED <<variant, py_sum, concVars, fn_in, getVars, pageVars, runVars>>

CallQuantiles ==
    /\ fn_pc = "call"
    /\ fn_in.fn = "quantiles"
    /\ fn_out' = quantiles(fn_in.values, fn_in.q10)
    /\ fn_pc' = "done"
    /\ UNCHANGED <<variant, py_sum, concVars, fn_in, getVars, pageVars, runVars>>

InitSpecStats ==
    /\ variant = "devflow"
    /\ py_sum \in SumImpls
    /\ InitGetIdle /\ InitPageIdle /\ InitRunIdle
    /\ InitStats
    /\ InitConcIdle
NextStats == CallSizeBucket \/ CallCollectSizes \/ CallQuantiles
SpecStats == InitSpecStats /\ [][NextStats]_vars

\* The files-changed counts of bucket b.
InBucket(b, n) ==
    CASE b = "xs" -> n <= 3
      [] b = "s"  -> 4 <= n /\ n <= 10
      [] b = "m"  -> 11 <= n /\ n <= 25
      [] b = "l"  -> 26 <= n /\ n <= 50
      [] b = "xl" -> n > 50

\* C15: size_bucket maps a count to the bucket whose range holds it (upper
\* bounds inclusive) and no count to "unknown"; and for every bucket b the
\* rollup of a project counts in size_b exactly the project's fact records
\* whose files-changed count lies in b.
C15_SizeHistogram ==
    /\ (fn_pc = "done" /\ fn_in.fn = "size_bucket") =>
          IF fn_in.files_changed = None THEN fn_out = "unknown"
          ELSE fn_out \in SizeBuckets /\ InBucket(fn_out, fn_in.files_changed[1])
    /\ (fn_pc = "done" /\ fn_in.fn = "collect_for_project" /\ fn_out.exc = "none") =>
          /\ Len(fn_out.facts) = Len(fn_in.mrs)
          /\ \A i \in 1..Len(fn_in.mrs) :
                fn_out.facts[i].files_changed = Some(fn_in.mrs[i].files)
          /\ \A b \in SizeBuckets :
                fn_out.rollup[1].size_counts[b]
                   = Cardinality({i \in 1..Len(fn_out.facts) :
                                     InBucket(b, fn_out.facts[i].files_changed[1])})

\* C15 witness: the counts [2, 12, 60] gave xs=1, s=0, m=1, l=0, xl=1.
C15_Witness ==
    /\ fn_pc = "done" /\ fn_in.fn = "collect_for_project"
    /\ Len(fn_in.mrs) = 3
    /\ <<fn_in.mrs[1].files, fn_in.mrs[2].files, fn_in.mrs[3].files>> = <<2, 12, 60>>
    /\ fn_out.exc = "none"
    /\ fn_out.rollup[1].size_counts
          = [b \in SizeBuckets |-> IF b \in {"xs", "m", "xl"} THEN 1 ELSE 0]

QuantilesCalled == fn_pc = "done" /\ fn_in.fn = "quantiles" /\ fn_in.values # <<>>

\* x is the element of rank idx (from 0) of vs in ascending order.
HasRank(vs, x, idx) ==
    /\ \E i \in 1..Len(vs) : vs[i] = x
    /\ Cardinality({i \in 1..Len(vs) : vs[i] < x}) <= idx
    /\ idx < Cardinality({i \in 1..Len(vs) : vs[i] <= x})

MinOf(vs) == CHOOSE x \in {vs[i] : i \in 1..Len(vs)} : \A i \in 1..Len(vs) : x <= vs[i]
MaxOf(vs) == CHOOSE x \in {vs[i] : i \in 1..Len(vs)} : \A i \in 1..Len(vs) : x >= vs[i]

\* y is x rounded to 3 decimals: the multiple of 10 nearest to x.
IsRounded3(y, x) == y % 10 = 0 /\ 2 * Abs(y - x) <= 10

\* C16 (as amended): for a non-empty list v of n values, quantiles(v, q) is
\* the element of v, in ascending order, at the index nearest to (n-1) x q,
\* rounded to 3 decimals: no value is interpolated; q = 0 gives the rounded
\* minimum, q = 1 the rounded maximum, n = 1 the rounded single element;
\* and the result is a member of v when v holds values of at most 3
\* decimals.
C16_NearestRankRounded ==
    QuantilesCalled =>
        LET vs == fn_in.values
            n  == Len(vs)
        IN  /\ fn_out # None
            /\ \E idx \in 0..(n - 1) : \E i \in 1..n :
                  /\ 2 * Abs(10 * idx - (n - 1) * fn_in.q10) <= 10
                  /\ HasRank(vs, vs[i], idx)
                  /\ IsRounded3(fn_out[1], vs[i])
            /\ fn_in.q10 = 0 => IsRounded3(fn_out[1], MinOf(vs))
            /\ fn_in.q10 = 10 => IsRounded3(fn_out[1], MaxOf(vs))
            /\ n = 1 => IsRounded3(fn_out[1], vs[1])
            /\ (\A i \in 1..n : vs[i] % 10 = 0) => \E i \in 1..n : fn_out[1] = vs[i]

\* C16 witness: the minimum of [0.0016, 0.0004] came back as 0.0, which is
\* no member of the list.
C16_Witness ==
    /\ QuantilesCalled
    /\ fn_in.values = <<16, 4>>
    /\ fn_in.q10 = 0
    /\ fn_out = Some(0)

\* C16 (original): the result is always a member of v; quantiles(v, 0) is
\* min(v), quantiles(v, 1) is max(v), and one element is returned as it is.
C16_ResultIsAMember ==
    QuantilesCalled =>
        LET vs == fn_in.values IN
        /\ \E i \in 1..Len(vs) : fn_out = Some(vs[i])
        /\ fn_in.q10 = 0 => fn_out = Some(MinOf(vs))
        /\ fn_in.q10 = 10 => fn_out = Some(MaxOf(vs))
        /\ Len(vs) = 1 => fn_out = Some(vs[1])

\* C17: at the end of every run the rollup records of the summary are in the
\* order of their project paths, as the paths are spelled or, as the
\* concurrent script compares them, without regard to case, whatever the
\* order of discovery and of completion.
C17_SummaryOrderedByPath ==
    (main_pc = "done" /\ summary.written) =>
        LET rows == summary.rows IN
        \/ \A i \in 1..Len(rows) : \A j \in 1..Len(rows) :
              i < j => rows[i].project_path < rows[j].project_path
        \/ \A i \in 1..Len(rows) : \A j \in 1..Len(rows) :
              i < j => path_lower(rows[i].project_path) < path_lower(rows[j].project_path)

\* A rollup all of whose statistics are 'no data'.
NoDataRollup(v, x) ==
    IF v = "devflow"
    THEN /\ x.mttm_mean_h = None /\ x.mttm_p50_h = None /\ x.mttm_p90_h = None
         /\ x.ttfr_mean_h = None /\ x.ttfr_p50_h = None /\ x.ttfr_p90_h = None
         /\ x.review_rounds_avg = None
         /\ \A b \in SizeBuckets : x.size_counts[b] = 0
    ELSE /\ x.pipelines_success = 0
         /\ x.success_rate.blank /\ x.default_success_rate.blank
         /\ x.duration_mean_sec.blank /\ x.duration_p50_sec.blank
         /\ x.duration_p90_sec.blank
         /\ x.queue_mean_sec.blank /\ x.queue_p50_sec.blank /\ x.queue_p90_sec.blank
         /\ x.default_duration_p50_sec.blank /\ x.default_duration_p90_sec.blank

\* main is between taking a result and the end of its handling (old: the
\* project's file is being written, or is written and the rollup not yet
\* appended).
HandlingResult == main_pc \in {"write", "append"}

\* C18: a project collected with zero facts still returns a rollup, with
\* total 0 and every statistic 'no data', and that rollup is never added to
\* the portfolio nor the project written as a per-project output.  A
\* rollup enters the portfolio only after the project's file was written,
\* at most once, and never with total 0.  Once main has handled the result
\* of a project collected with at least one fact, the project's file is
\* written and its rollup is the last of the portfolio; whenever main is
\* not handling a result, the projects of the portfolio are the projects
\* written, each exactly once, and so are the rows of the summary when it
\* is written.
C18_EmptyProjectsAreLeftOut ==
    /\ (result.path # 0 /\ result.facts = <<>>) =>
          /\ result.rollup.project_path = result.path
          /\ RollupTotal(variant, result.rollup) = 0
          /\ NoDataRollup(variant, result.rollup)
          /\ result.path \notin written
          /\ result.path \notin RollupPaths
    /\ \A i \in DOMAIN pool :
          (pool[i].pc = "returned" /\ pool[i].ret.facts = <<>>) =>
             /\ RollupTotal(variant, pool[i].ret.rollup) = 0
             /\ NoDataRollup(variant, pool[i].ret.rollup)
    /\ RollupPaths \subseteq written
    /\ \A q \in RollupPaths :
          Cardinality({i \in 1..Len(rollups) : rollups[i].project_path = q}) = 1
    /\ \A i \in 1..Len(rollups) : RollupTotal(variant, rollups[i]) > 0
    /\ main_pc = "write" =>
          (result.facts # <<>> /\ result.path \notin written)
    /\ main_pc = "append" =>
          (result.facts # <<>> /\ written \ RollupPaths = {result.path})
    /\ ~HandlingResult =>
          /\ RollupPaths = written
          /\ (result.path # 0 /\ result.facts # <<>>) =>
                /\ result.path \in written
                /\ rollups[Len(rollups)] = result.rollup
    /\ (main_pc = "done" /\ summary.written) =>
          /\ Len(summary.rows) = Len(rollups)
          /\ {summary.rows[i].project_path : i \in 1..Len(summary.rows)} = written

\* C18 case: a run of the concurrent script has ended in which the result
\* main took last came back with no fact, and the rollup of the other
\* project, written and appended before, makes up the summary.
C18_Witness ==
    /\ variant = "old"
    /\ main_pc = "done"
    /\ result.path # 0
    /\ result.facts = <<>>
    /\ Cardinality(BegunPaths) = 2
    /\ Len(rollups) = 1
    /\ written = RollupPaths
    /\ result.path \notin written
    /\ summary.written
    /\ Len(summary.rows) = 1

\* The results the processor gives for entities outside the lookback window.
SkipResults(v) ==
    {process_result(StepOf(v, Project(1, Some("main")), e)) :
        e \in {x \in CollectInputs(v) :
                  StepOf(v, Project(1, Some("main")), x).outcome = "skip"}}

\* C19: what the per-entity processor returns for an entity whose fetch or
\* parse failed is none of the results it returns for an entity outside the
\* lookback window, so that the collector can tell the two apart.
C19_FailureDistinctFromSkip ==
    (last.outcome = "failed" /\ main_pc # "aborted") => last.ret \notin SkipResults(variant)

-----------------------------------------------------------------------------
(***************************************************************************)
(* SpecConc: the two nested thread pools of the old script.  main creates  *)
(* ThreadPoolExecutor(max_workers=max(1, args.workers)) and submits one    *)
(* collect_for_project per discovered project; each running collector      *)
(* lists the project's pipelines and creates its own                       *)
(* ThreadPoolExecutor(max_workers=max(1, per_project_workers)), to which   *)
(* it submits one process_single_pipeline per pipeline.  An executor runs  *)
(* a pending task, the oldest first, only while fewer than max_workers of  *)
(* its tasks are running.                                                  *)
(***************************************************************************)
DefaultWorkers == 8
DefaultPerProjectWorkers == 4

\* Pipelines of all projects together in a run of the two pools.
MaxTasks == 3

\* The widths a command line may give; None when the option is absent.
WidthOptions == {None} \cup {Some(n) : n \in {0, 2}}

\* parser.add_argument("--workers", type=int, default=8) and
\* ("--per-project-workers", type=int, default=4), then parse_args().
parse_args(line) ==
    [workers |-> IF line.workers = None THEN DefaultWorkers ELSE line.workers[1],
     per_project_workers |->
         IF line.per_project_workers = None THEN DefaultPerProjectWorkers
         ELSE line.per_project_workers[1]]

\* A pool one wider than the clamped width.
PoolWidth_OneWider(n) == Max2(1, n) + 1

\* max_workers=max(1, args.workers) and max_workers=max(1, per_project_workers).
PoolWidth(n) == Max2(1, n)

NoExecutor == [max_workers |-> 0]

\* One discovered project: st is "new" before its collector is submitted,
\* "pending" while the future waits for a worker, "listing" while the
\* collector runs list_pipelines, "pool" while its inner executor is open,
\* "finished" once collect_for_project has returned and "raised" once it
\* has raised, "consumed" once main has handled the future; tasks are the
\* listed pipelines and the futures of their process_single_pipeline calls:
\* "new" before the call is submitted, "pending", "running", "done" once the
\* call has returned a fact and "none" once it has returned None,
\* "collected" once the collector has handled the result.
Collector(st, width, tasks) == [st |-> st, max_workers |-> width, tasks |-> tasks]

RunningProjects == {i \in DOMAIN col : col[i].st \in {"listing", "pool"}}
RunningIn(i) == {j \in DOMAIN col[i].tasks : col[i].tasks[j] = "running"}
RunningProcessors == {<<i, j>> \in (DOMAIN col) \X (1..MaxEntities) : j \in RunningIn(i)}

\* The oldest pending task of a queue.
OldestPending(states, i) ==
    /\ i \in DOMAIN states
    /\ states[i] = "pending"
    /\ \A k \in DOMAIN states : k < i => states[k] # "pending"

\* The threads: main, the worker running collect_for_project of project i,
\* the worker running process_single_pipeline of its pipeline j.
Thread(kind, i, j) == [kind |-> kind, i |-> i, j |-> j]
MainThread == Thread("main", 0, 0)
CollectorThread(i) == Thread("collector", i, 0)
ProcessorThread(i, j) == Thread("processor", i, j)

\* `GitLab(base_url, token)` run by thread w: a new instance, not used yet.
NewClient(clients, w) ==
    [o \in DOMAIN clients \cup {w} |-> IF o = w THEN {} ELSE clients[o]]

\* The function that created the instance returns: its local name was the
\* only reference to it.
DropClient(clients, w) == [o \in DOMAIN clients \ {w} |-> clients[o]]

\* Every thread sends its requests through the instance main created.
ClientOf_Discovery(w) == MainThread

\* The instance behind the local name `gl` (`gl_discovery` in main) of the
\* code thread w runs: the one w created.
ClientOf(w) == w

\* Thread w sends a request through its `gl`.
Request(clients, w) == [clients EXCEPT ![ClientOf(w)] = @ \cup {w}]

\* The lists appended to: main's `rollups`, and the `facts`, duration, queue
\* and status lists and the stage map local to collect_for_project of
\* project i.
PortfolioLists == [kind |-> "portfolio", i |-> 0]
ProjectLists(i) == [kind |-> "project", i |-> i]

\* Each processor appends its own result.
FactWriter_Processor(i, j) == ProcessorThread(i, j)

\* The thread running the lines 308-325 for the pipeline j of project i.
FactWriter(i, j) == CollectorThread(i)

\* One append: to which lists, by which thread, and whether the future the
\* appended value came from had completed.
Append1(lists, by, completed) == [lists |-> lists, by |-> by, completed |-> completed]

InitConc ==
    /\ conc_pc = "discover"
    /\ argv \in [workers : WidthOptions, per_project_workers : WidthOptions]
    /\ ex = NoExecutor
    /\ col = <<>>
    /\ gl = <<>>
    /\ appends = {}

\* main creates gl_discovery and lists the projects through it, then enters
\* `with ThreadPoolExecutor(max_workers=max(1, args.workers)) as ex:`.
OpenPool ==
    /\ conc_pc = "discover"
    /\ \E n \in 0..MaxProjects :
          col' = [i \in 1..n |-> Collector("new", 0, <<>>)]
    /\ ex' = [max_workers |-> PoolWidth(parse_args(argv).workers)]
    /\ gl' = Request(NewClient(gl, MainThread), MainThread)
    /\ conc_pc' = "submit"
    /\ UNCHANGED <<variant, py_sum, getVars, pageVars, runVars, fnVars, argv, appends>>

\* One iteration of `for p in projects: futures.append(ex.submit(...))`.
SubmitProject ==
    /\ conc_pc = "submit"
    /\ \E i \in DOMAIN col :
          /\ col[i].st = "new"
          /\ \A k \in DOMAIN col : k < i => col[k].st # "new"
          /\ col' = [col EXCEPT ![i].st = "pending"]
    /\ UNCHANGED <<variant, py_sum, getVars, pageVars, runVars, fnVars, conc_pc, argv, ex,
                   gl, appends>>

\* The submit loop is over; main waits in `for fut in as_completed(futures)`.
AwaitCollectors ==
    /\ conc_pc = "submit"
    /\ \A i \in DOMAIN col : col[i].st # "new"
    /\ conc_pc' = "as_completed"
    /\ UNCHANGED <<variant, py_sum, getVars, pageVars, runVars, fnVars, argv, ex, col,
                   gl, appends>>

\* A worker of main's executor takes the oldest pending collector, which
\* creates its `gl` and calls gl.list_pipelines.
StartCollector ==
    /\ conc_pc \in {"submit", "as_completed"}
    /\ Cardinality(RunningProjects) < ex.max_workers
    /\ \E i \in DOMAIN col :
          /\ OldestPending([k \in DOMAIN col |-> col[k].st], i)
          /\ col' = [col EXCEPT ![i].st = "listing"]
          /\ gl' = Request(NewClient(gl, CollectorThread(i)), CollectorThread(i))
    /\ UNCHANGED <<variant, py_sum, getVars, pageVars, runVars, fnVars, conc_pc, argv, ex,
                   appends>>

\* The pipelines listed so far, of all projects together.
RECURSIVE Listed(_)
Listed(cs) == IF cs = <<>> THEN 0 ELSE Len(cs[1].tasks) + Listed(Tail(cs))

\* `pipelines = gl.list_pipelines(pid)` returns and the collector enters
\* `with ThreadPoolExecutor(max_workers=max(1, per_project_workers)) as ex:`.
\* The server has at most MaxTasks pipelines in all.
OpenInnerPool ==
    /\ \E i \in DOMAIN col :
          /\ col[i].st = "listing"
          /\ \E n \in 0..Min2(MaxEntities, MaxTasks - Listed(col)) :
                col' = [col EXCEPT ![i] =
                           Collector("pool",
                                     PoolWidth(parse_args(argv).per_project_workers),
                                     [j \in 1..n |-> "new"])]
    /\ UNCHANGED <<variant, py_sum, getVars, pageVars, runVars, fnVars, conc_pc, argv, ex,
                   gl, appends>>

\* One `ex.submit(process_single_pipeline, ...)` of the list comprehension
\* (lines 302-303): the next listed pipeline.  A worker of the inner pool
\* may run it from now on, while the collector submits the others.
SubmitPipeline ==
    /\ \E i \in DOMAIN col :
          /\ col[i].st = "pool"
          /\ \E j \in DOMAIN col[i].tasks :
                /\ col[i].tasks[j] = "new"
                /\ \A k \in DOMAIN col[i].tasks : k < j => col[i].tasks[k] # "new"
                /\ col' = [col EXCEPT ![i].tasks[j] = "pending"]
    /\ UNCHANGED <<variant, py_sum, getVars, pageVars, runVars, fnVars, conc_pc, argv, ex,
                   gl, appends>>

\* list_pipelines raises: the exception leaves collect_for_project and is
\* kept in the project's future.
ListingRaises ==
    /\ \E i \in DOMAIN col :
          /\ col[i].st = "listing"
          /\ col' = [col EXCEPT ![i].st = "raised"]
          /\ gl' = DropClient(gl, CollectorThread(i))
    /\ UNCHANGED <<variant, py_sum, getVars, pageVars, runVars, fnVars, conc_pc, argv, ex,
                   appends>>

\* A worker of a collector's executor takes its oldest pending pipeline:
\* process_single_pipeline creates its `gl`; for a pipeline inside the
\* window it calls gl.get_pipeline and gl.get_pipeline_jobs, for one created
\* before `since` or without a time it sends nothing (lines 212-236).
StartProcessor ==
    /\ \E i \in DOMAIN col :
          /\ col[i].st = "pool"
          /\ Cardinality(RunningIn(i)) < col[i].max_workers
          /\ \E j \in DOMAIN col[i].tasks :
                /\ OldestPending(col[i].tasks, j)
                /\ col' = [col EXCEPT ![i].tasks[j] = "running"]
                /\ \E in_window \in BOOLEAN :
                      gl' = IF in_window
                            THEN Request(NewClient(gl, ProcessorThread(i, j)),
                                         ProcessorThread(i, j))
                            ELSE NewClient(gl, ProcessorThread(i, j))
    /\ UNCHANGED <<variant, py_sum, getVars, pageVars, runVars, fnVars, conc_pc, argv, ex,
                   appends>>

\* What a running process_single_pipeline may return (it raises nothing:
\* `except Exception`): None if it has sent no request, a fact or None (a
\* request or a value failed) if it has.
Returns(clients, w) == IF clients[w] = {} THEN {"none"} ELSE {"done", "none"}

\* process_single_pipeline returns.
FinishProcessor ==
    /\ \E i \in DOMAIN col :
          /\ col[i].st = "pool"
          /\ \E j \in RunningIn(i) :
                /\ \E ret \in Returns(gl, ProcessorThread(i, j)) :
                      col' = [col EXCEPT ![i].tasks[j] = ret]
                /\ gl' = DropClient(gl, ProcessorThread(i, j))
    /\ UNCHANGED <<variant, py_sum, getVars, pageVars, runVars, fnVars, conc_pc, argv, ex,
                   appends>>

\* Every pipeline is submitted; as_completed of the collector yields a
\* finished future.  The fact it returned and its values are appended to
\* the lists; for None the iteration ends at `continue` (lines 304-325).
CollectResult ==
    /\ \E i \in DOMAIN col :
          /\ col[i].st = "pool"
          /\ \A k \in DOMAIN col[i].tasks : col[i].tasks[k] # "new"
          /\ \E j \in DOMAIN col[i].tasks :
                /\ col[i].tasks[j] \in {"done", "none"}
                /\ col' = [col EXCEPT ![i].tasks[j] = "collected"]
                /\ appends' =
                      IF col[i].tasks[j] = "done"
                      THEN appends \cup {Append1(ProjectLists(i), FactWriter(i, j),
                                                  col[i].tasks[j] = "done")}
                      ELSE appends
    /\ UNCHANGED <<variant, py_sum, getVars, pageVars, runVars, fnVars, conc_pc, argv, ex, gl>>

\* Every inner future was handled: the inner `with` ends and
\* collect_for_project returns.
ReturnCollector ==
    /\ \E i \in DOMAIN col :
          /\ col[i].st = "pool"
          /\ \A j \in DOMAIN col[i].tasks : col[i].tasks[j] = "collected"
          /\ col' = [col EXCEPT ![i].st = "finished"]
          /\ gl' = DropClient(gl, CollectorThread(i))
    /\ UNCHANGED <<variant, py_sum, getVars, pageVars, runVars, fnVars, conc_pc, argv, ex,
                   appends>>

\* as_completed of main yields a finished future: the rollup is appended
\* `if facts`; a future holding an exception gives a warning.
ConsumeResult ==
    /\ conc_pc = "as_completed"
    /\ \E i \in DOMAIN col :
          /\ col[i].st \in {"finished", "raised"}
          /\ col' = [col EXCEPT ![i].st = "consumed"]
          /\ appends' =
                IF col[i].st = "finished"
                   /\ \E a \in appends : a.lists = ProjectLists(i)
                THEN appends \cup {Append1(PortfolioLists, MainThread,
                                           col[i].st \in {"finished", "raised"})}
                ELSE appends
    /\ UNCHANGED <<variant, py_sum, getVars, pageVars, runVars, fnVars, conc_pc, argv, ex, gl>>

\* as_completed has given every future: main's `with` ends.
ClosePool ==
    /\ conc_pc = "as_completed"
    /\ \A i \in DOMAIN col : col[i].st = "consumed"
    /\ conc_pc' = "done"
    /\ UNCHANGED <<variant, py_sum, getVars, pageVars, runVars, fnVars, argv, ex, col,
                   gl, appends>>

InitSpecConc ==
    /\ variant = "old"
    /\ InitSumIdle
    /\ InitGetIdle /\ InitPageIdle /\ InitRunIdle /\ InitFnIdle
    /\ InitConc
NextConc ==
    \/ OpenPool \/ SubmitProject \/ AwaitCollectors \/ StartCollector
    \/ OpenInnerPool \/ ListingRaises \/ SubmitPipeline \/ StartProcessor
    \/ FinishProcessor
    \/ CollectResult \/ ReturnCollector \/ ConsumeResult \/ ClosePool
SpecConc == InitSpecConc /\ [][NextConc]_vars

\* The width the claim gives for a configured number of workers.
ClaimedWidth(n) == IF n >= 1 THEN n ELSE 1

\* C20: with W = max(1, workers) and V = max(1, per_project_workers), where
\* an option left out is 8 and 4, main's pool has width W and never more
\* than W project collectors run at once; each collector's pool has width V
\* and never more than V of its entity processors run at once; at most
\* W * V entity processors run at once; every pool's width is at least 1.
C20_BoundedFanOut ==
    LET W == ClaimedWidth(IF argv.workers = None THEN 8 ELSE argv.workers[1])
        V == ClaimedWidth(IF argv.per_project_workers = None THEN 4
                          ELSE argv.per_project_workers[1])
    IN
    /\ conc_pc # "discover" => ex.max_workers = W
    /\ Cardinality(RunningProjects) <= W
    /\ \A i \in DOMAIN col :
          /\ col[i].st = "pool" => col[i].max_workers = V
          /\ Cardinality(RunningIn(i)) <= V
    /\ Cardinality(RunningProcessors) <= W * V
    /\ W >= 1 /\ V >= 1

\* C20 case: both widths were configured as 0 or less; one collector runs
\* while another waits for the pool, and one of its processors runs while
\* another waits.
C20_Witness ==
    /\ argv.workers # None /\ argv.workers[1] <= 0
    /\ argv.per_project_workers # None /\ argv.per_project_workers[1] <= 0
    /\ \E i \in RunningProjects :
          /\ \E k \in DOMAIN col : col[k].st = "pending"
          /\ RunningIn(i) # {}
          /\ \E j \in DOMAIN col[i].tasks : col[i].tasks[j] = "pending"

\* Whether thread w runs a collector or a processor at this moment.
IsRunning(w) ==
    /\ w.i \in DOMAIN col
    /\ \/ w.kind = "collector" /\ w.i \in RunningProjects
       \/ w.kind = "processor" /\ w.j \in RunningIn(w.i)

\* C21: every GitLab instance is used only by the thread that created it:
\* no instance has carried requests of two threads, main's instance has
\* carried main's only, and no two running collectors or processors have
\* sent requests through the same instance.
C21_PrivateClients ==
    /\ \A o \in DOMAIN gl : gl[o] \subseteq {o}
    /\ \A o \in DOMAIN gl : \A w1 \in gl[o] : \A w2 \in gl[o] :
          (IsRunning(w1) /\ IsRunning(w2)) => w1 = w2

\* C21 case: two collectors run at once, two processors of one of them run
\* at once, and each of the four threads has sent requests through an
\* instance of its own, as main has.
C21_Witness ==
    /\ Cardinality(RunningProjects) = 2
    /\ \E i \in RunningProjects : Cardinality(RunningIn(i)) = 2
    /\ gl[MainThread] = {MainThread}
    /\ Cardinality({o \in DOMAIN gl : IsRunning(o) /\ gl[o] = {o}}) = 4

\* C22: main's rollup list is appended to by main only and only for a
\* project whose future has completed; the lists of a project are appended
\* to by that project's collector only and only for a pipeline whose future
\* has completed; no list is appended to by two threads.
C22_SingleWriter ==
    /\ \A a \in appends :
          /\ a.completed
          /\ a.lists = PortfolioLists => a.by = MainThread
          /\ a.lists.kind = "project" => a.by = CollectorThread(a.lists.i)
    /\ \A a \in appends : \A b \in appends : a.lists = b.lists => a.by = b.by

\* C22 case: the results of two pipelines of one project were collected, a
\* fact among them appended, while a processor of another project is still
\* running, and main has appended a rollup.
C22_Witness ==
    /\ \E a \in appends : a.lists = PortfolioLists
    /\ \E i \in DOMAIN col :
          /\ Cardinality({j \in DOMAIN col[i].tasks : col[i].tasks[j] = "collected"}) = 2
          /\ \E a \in appends : a.lists = ProjectLists(i)
    /\ RunningProcessors # {}

-----------------------------------------------------------------------------
\* C24: when every one of the 5 attempts of one GET was answered with a
\* retryable status, _get ends by raising HTTPError: it does not return a
\* response and raises no other type of error.
C24_ExhaustedRetriesRaiseHTTPError ==
    (attempt = MaxAttempts /\ get_pc # "loop") =>
        /\ get_pc = "raised"
        /\ get_exc = "HTTPError"

\* C28: against a server with finitely many pages, whose next-page header
\* always names a later page and whose last page has none, the walk asks
\* for page 1 and then always for the page the last header named, asks for
\* no page twice, and comes to an end.
C28_PaginationTerminates ==
    /\ [](/\ Len(visited) >= 1 => visited[1].page = 1
          /\ \A k \in 2..Len(visited) :
                visited[k].page = IntOf(visited[k - 1].header.digits)
          /\ \A i, j \in 1..Len(visited) : i # j => visited[i].page # visited[j].page
          /\ pg_pc = "done" => ~GoesOn(visited[Len(visited)]))
    /\ <>(pg_pc = "done")

\* C28 case: a finished walk over the pages 1, 3 and 12: the page asked
\* for second is the one named, not page 2.
C28_Witness ==
    /\ pg_pc = "done"
    /\ [k \in 1..Len(visited) |-> visited[k].page] = <<1, 3, 12>>
    /\ \A k \in 1..Len(visited) : visited[k].body.islist

-----------------------------------------------------------------------------
(***************************************************************************)
(* SpecQueue: single calls of compute_job_queue_seconds and of the queue   *)
(* mean of one pipeline's jobs (ci and old)                                *)
(***************************************************************************)
MaxJobs == 2

\* The timestamp fields a job may carry.
StampFields ==
    {Null, MissingKey, WrongType, FalsyValue, EmptyString, BadString}
    \cup {Some(t) : t \in 0..2}

\* queued_duration: absent, or a number of seconds.
QueuedDurations == {None, Some(0), Some(10000), Some(30000)}

QueueJob(qd, created, started) ==
    [BaseJob EXCEPT !.queued_duration = qd, !.created_at = created,
                    !.started_at = started]

\* The jobs of the lists: with and without queued_duration, with both,
\* one or no timestamp, and with a created_at that is malformed or not a
\* string.
ListedJobs ==
    {QueueJob(qd, ts[1], ts[2]) :
        qd \in QueuedDurations,
        ts \in {<<Null, Null>>, <<Some(0), Some(2)>>, <<Some(1), Some(1)>>,
                <<Null, Some(1)>>, <<BadString, Some(1)>>, <<WrongType, Some(1)>>}}

\* One call, before it is made.
InitQueue ==
    /\ fn_pc = "call"
    /\ fn_out = None
    /\ \/ \E qd \in QueuedDurations : \E c \in StampFields : \E st \in StampFields :
             fn_in = [fn |-> "compute_job_queue_seconds", job |-> QueueJob(qd, c, st)]
       \/ \E js \in SeqsUpTo(ListedJobs, MaxJobs) :
             fn_in = [fn |-> "queue_mean", jobs |-> js]

CallComputeJobQueueSeconds ==
    /\ fn_pc = "call"
    /\ fn_in.fn = "compute_job_queue_seconds"
    /\ fn_out' = compute_job_queue_seconds(variant, fn_in.job)
    /\ fn_pc' = "done"
    /\ UNCHANGED <<variant, py_sum, concVars, fn_in, getVars, pageVars, runVars>>

\* job_queues = [q for q in (compute_job_queue_seconds(j) for j in jobs)
\* if q is not None]; queue_mean = avg(job_queues)
CallQueueMean ==
    /\ fn_pc = "call"
    /\ fn_in.fn = "queue_mean"
    /\ LET jq == job_queues(variant, fn_in.jobs) IN
          fn_out' = IF jq.exc # "none" THEN jq
                    ELSE Ok([job_queues |-> jq.val, queue_mean |-> avg(jq.val)])
    /\ fn_pc' = "done"
    /\ UNCHANGED <<variant, py_sum, concVars, fn_in, getVars, pageVars, runVars>>

InitSpecQueue ==
    /\ variant \in {"ci", "old"}
    /\ py_sum \in SumImpls
    /\ InitGetIdle /\ InitPageIdle /\ InitRunIdle
    /\ InitQueue
    /\ InitConcIdle
NextQueue == CallComputeJobQueueSeconds \/ CallQueueMean
SpecQueue == InitSpecQueue /\ [][NextQueue]_vars

\* The queue time the claim gives to a job: queued_duration when it is a
\* number, else started_at minus created_at when both are timestamps, else
\* 'no data'.
ClaimedQueue(job) ==
    IF job.queued_duration # None THEN job.queued_duration
    ELSE IF IsStamp(job.created_at) /\ IsStamp(job.started_at)
         THEN Some(10000 * (job.started_at[1] - job.created_at[1]))
         ELSE None

RECURSIVE ResolvedQueues(_)
ResolvedQueues(jobs) ==
    IF jobs = <<>> THEN <<>>
    ELSE ClaimedQueue(jobs[1]) \o ResolvedQueues(Tail(jobs))

\* C25: compute_job_queue_seconds returns queued_duration whenever it is a
\* number, whatever created_at and started_at hold; without
\* queued_duration it returns started_at minus created_at when both are
\* timestamps and 'no data' whenever that cannot be computed (a timestamp
\* is absent, null, empty, malformed or no string at all); the queue
\* metric of a pipeline is the mean, rounded to 3 decimals, of the resolved
\* values of its jobs, in job order, and 'no data' when no job has one.
C25_QueueTimeSourcePreference ==
    /\ (fn_pc = "done" /\ fn_in.fn = "compute_job_queue_seconds") =>
          fn_out = Ok(ClaimedQueue(fn_in.job))
    /\ (fn_pc = "done" /\ fn_in.fn = "queue_mean") =>
          LET qs == ResolvedQueues(fn_in.jobs) IN
          /\ fn_out.exc = "none"
          /\ fn_out.val.job_queues = qs
          /\ qs = <<>> <=> fn_out.val.queue_mean = None
          /\ qs # <<>> =>
                LET m == fn_out.val.queue_mean[1] IN
                /\ m % 10 = 0
                /\ 2 * (m * Len(qs) - SumSeq(qs)) <= 10 * Len(qs)
                /\ 2 * (SumSeq(qs) - m * Len(qs)) <= 10 * Len(qs)

-----------------------------------------------------------------------------
\* C26: when the processing of one entity ends in a skip or in a caught
\* exception, the fact list and every accumulator of the project (value
\* lists, status lists, per-stage duration map, size counts) are as they
\* were before that entity was started.
C26_FailedEntityLeavesAccumulators ==
    [][/\ (/\ main_pc = "entities"
           /\ todo' = todo - 1
           /\ last'.outcome \in {"skip", "failed"}) => acc' = acc
       /\ \A i \in DOMAIN pool :
             (pool[i].pc = "pool" /\ pool'[i].nfact = pool[i].nfact) =>
                pool'[i].acc = pool[i].acc]_vars

-----------------------------------------------------------------------------
Reverse(xs) == [i \in 1..Len(xs) |-> xs[Len(xs) + 1 - i]]

\* C29: in the event stream of compute_review_rounds a review stands before
\* every commit of the same timestamp, so that with a review and a commit
\* at one tick and nothing else the commit closes a round; the stream is in
\* time order; and the round count is the same when the notes and the
\* commits are each given in the opposite order.
C29_ReviewBeforeCommitOnTies ==
    RoundsCalled =>
        LET ev == fn_out.events IN
        /\ \A i, j \in 1..Len(ev) :
              (i < j /\ ev[i].t = ev[j].t) => ~(ev[i].kind = "commit" /\ ev[j].kind = "review")
        /\ \A i, j \in 1..Len(ev) : i < j => ev[i].t <= ev[j].t
        /\ (\E i \in 1..(Len(ev) - 1) :
               ev[i].kind = "review" /\ ev[i + 1].kind = "commit") => fn_out.rounds >= 1
        /\ (\E t \in Ticks : EventsAt(ev, "review", t) # {} /\ EventsAt(ev, "commit", t) # {})
              => fn_out.rounds >= 1
        /\ fn_out.rounds =
              compute_review_rounds(fn_in.mr_author, Reverse(fn_in.notes),
                                    Reverse(fn_in.commits), fn_in.start_time,
                                    fn_in.merged_at).val

\* C29 case: one qualifying review and one commit, both at the start of the
\* interval, and nothing else: one round.
C29_Witness ==
    /\ RoundsCalled
    /\ fn_out.events = <<[t |-> fn_in.start_time, kind |-> "review"],
                         [t |-> fn_in.start_time, kind |-> "commit"]>>
    /\ Len(fn_in.notes) = 1 /\ Len(fn_in.commits) = 1
    /\ fn_out.rounds = 1

-----------------------------------------------------------------------------
\* Whether the rank 0.5 of a list of two values is rounded up to index 1.
TieOfTwoRoundsUp == quantiles(<<0, 10000>>, 5) = Some(10000)

\* C30: for a non-empty list the quantile does not decrease when q grows;
\* and at a rank that falls half-way between two indices k and k + 1
\* holding different values, the upper one is selected exactly if it is
\* for q = 0.5 on a list of two values: the direction is the same for
\* every length.
C30_QuantileUniformMonotone ==
    (QuantilesCalled /\ fn_in.values # <<>>) =>
        LET vals == sorted(fn_in.values)
            rank == (Len(vals) - 1) * fn_in.q10
            k    == rank \div 10
        IN  /\ \A q2 \in fn_in.q10..10 : fn_out[1] <= quantiles(fn_in.values, q2)[1]
            /\ (rank % 10 = 5 /\ round3(vals[k + 1]) # round3(vals[k + 2])) =>
                  (fn_out = Some(round3(vals[k + 2])) <=> TieOfTwoRoundsUp)

-----------------------------------------------------------------------------
(***************************************************************************)
(* SpecAgree: collect_for_project of the sequential and of the concurrent  *)
(* CI script on the same project, the same pipelines and the same cutoff   *)
(***************************************************************************)

\* What collect_for_project returns for the pipelines es, handled in the
\* order given: (facts, rollup, stage_rows).
collect_result(v, project, es) ==
    LET returned(a) ==
            IF a.exc # "none"
            THEN [exc |-> a.exc, facts |-> <<>>, rollup |-> None, stages |-> <<>>]
            ELSE [exc |-> "none", facts |-> a.val.facts,
                  rollup |-> Some(Rollup(v, project, a.val)),
                  stages |-> stage_rows(a.val)]
    IN  \* the loop runs once; its outcome is bound before the return is built
        CHOOSE res \in {returned(a) : a \in {collect_loop(v, project, es, InitAcc)}} : TRUE

\* The pipelines the server lists for the project.
InitAgree ==
    /\ fn_pc = "call"
    /\ fn_out = None
    /\ \E es \in SeqsUpTo(CollectInputs("ci"), MaxEntities) :
          fn_in = [fn |-> "collect_for_project", pipelines |-> es]

\* Both collectors run on the listed pipelines; the futures of the
\* concurrent one complete in the listed or in the opposite order.
CallBothCollectors ==
    /\ fn_pc = "call"
    /\ fn_in.fn = "collect_for_project"
    /\ \E done \in {fn_in.pipelines, Reverse(fn_in.pipelines)} :
          fn_out' = [ci  |-> collect_result("ci", Project(1, Some("main")),
                                            fn_in.pipelines),
                     old |-> collect_result("old", Project(1, Some("main")), done)]
    /\ fn_pc' = "done"
    /\ UNCHANGED <<variant, py_sum, concVars, fn_in, getVars, pageVars, runVars>>

InitSpecAgree ==
    /\ variant = "ci"
    /\ py_sum \in SumImpls
    /\ InitGetIdle /\ InitPageIdle /\ InitRunIdle
    /\ InitAgree
    /\ InitConcIdle
NextAgree == CallBothCollectors
SpecAgree == InitSpecAgree /\ [][NextAgree]_vars

\* C27: on the same project, pipelines, jobs and cutoff the concurrent and
\* the sequential collect_for_project return the same rollup, the same fact
\* records (each as many times) and the same stage rows.
C27_CollectorsAgree ==
    (fn_pc = "done" /\ fn_in.fn = "collect_for_project") =>
        /\ fn_out.ci.rollup = fn_out.old.rollup
        /\ \A f \in {fn_out.ci.facts[i] : i \in 1..Len(fn_out.ci.facts)}
                \cup {fn_out.old.facts[i] : i \in 1..Len(fn_out.old.facts)} :
              CountEq(fn_out.ci.facts, f) = CountEq(fn_out.old.facts, f)
        /\ fn_out.ci.stages = fn_out.old.stages

-----------------------------------------------------------------------------
(***************************************************************************)
(* SpecOrder: the concurrent collect_for_project of one project, whose     *)
(* pipeline futures complete in any order (old, lines 301-325)             *)
(***************************************************************************)

MaxFutures == 3

\* Pipeline durations the server reports: 0.0001 s, 0.0043 s and 1 s.
ReportedDurations == {1, 43, 10000}

\* The pipelines list_pipelines may return: in the window with a reported
\* duration, or created before the cutoff.
OrderPipelines ==
    {[BasePipeline EXCEPT !.duration = Some(d)] : d \in ReportedDurations}
    \cup {[BasePipeline EXCEPT !.created_at = Some(Since - 1)]}

\* One future per listed pipeline has been submitted; none was handled yet.
InitOrder ==
    /\ fn_pc = "as_completed"
    /\ \E es \in SeqsUpTo(OrderPipelines, MaxFutures) :
          /\ fn_in = [fn |-> "collect_for_project", pipelines |-> es]
          /\ fn_out = [pending |-> 1..Len(es), acc |-> InitAcc, rollup |-> None]

\* as_completed yields the future that finishes next, whichever it is, and
\* the collector handles its result.
FutureCompletes ==
    /\ fn_pc = "as_completed"
    /\ \E j \in fn_out.pending :
          fn_out' = [fn_out EXCEPT
                       !.pending = @ \ {j},
                       !.acc = old_fold(@, process_single_pipeline(
                                             Project(1, Some("main")),
                                             fn_in.pipelines[j], Since))]
    /\ UNCHANGED <<variant, py_sum, concVars, fn_pc, fn_in, getVars, pageVars, runVars>>

\* Every future was handled: the rollup is computed from the lists.
ReturnRollup ==
    /\ fn_pc = "as_completed"
    /\ fn_out.pending = {}
    /\ fn_out' = [fn_out EXCEPT
                    !.rollup = Some(rollup_ci(Project(1, Some("main")), fn_out.acc))]
    /\ fn_pc' = "returned"
    /\ UNCHANGED <<variant, py_sum, concVars, fn_in, getVars, pageVars, runVars>>

InitSpecOrder ==
    /\ variant = "old"
    /\ py_sum \in SumImpls
    /\ InitGetIdle /\ InitPageIdle /\ InitRunIdle
    /\ InitOrder
    /\ InitConcIdle
NextOrder == FutureCompletes \/ ReturnRollup
SpecOrder == InitSpecOrder /\ [][NextOrder]_vars

\* C23: the rollup of a project does not depend on the order in which the
\* results of its pipelines were collected: whatever the completion order,
\* it equals the rollup of the run whose futures complete in the listed
\* order.
C23_RollupIndependentOfCompletionOrder ==
    fn_pc = "returned" =>
        fn_out.rollup = collect_result("old", Project(1, Some("main")),
                                       fn_in.pipelines).rollup

=============================================================================
